---- MODULE Spec2Model ----
(***************************************************************************)
(* Invoice Insights: the invoice extraction pipeline (numeric coercion,    *)
(* charge classification, field extraction, per-document orchestration,   *)
(* the batch upload loop), the result store, the rate-schedule context and *)
(* the rate comparator, as state machines over the repository's code.      *)
(***************************************************************************)
EXTENDS Integers, Sequences, FiniteSets, TLC

VARIABLES
    cin,        \* parseChargeValue: the value handed to it
    cout,       \* parseChargeValue: the number it returned
    cdone,      \* parseChargeValue: whether it has been applied to cin
    cmpInvoice, \* compareCharges: the invoice handed to it
    cmpRates,   \* compareCharges: the rates handed to it (Null or a schedule)
    cmpStatus,  \* compareCharges: the status it returned ("" before the call)
    files,      \* InvoiceUploader: the selected files (state `files`)
    batch,      \* handleUpload: the `files` captured by the running transition
    pc,         \* handleUpload: position of the async transition
    idx,        \* handleUpload: index in batch of the file being processed
    processedFiles,          \* handleUpload local
    allExtractedData,        \* handleUpload local
    processingErrorOccurred, \* handleUpload local
    basicDetails,            \* extractInvoiceDataFlow local (current document)
    progress,   \* InvoiceUploader state `progress` (NoProgress or 0..100)
    error,      \* InvoiceUploader state `error` (Null or <<filename, cause>>)
    toasts,     \* every toast issued, in order
    calls,      \* every read / capability call issued, in order
    handed,     \* every argument addInvoiceData was called with, in order
    settled,    \* how each document of the batch settled, in order
    progressed, \* handleUpload: every value handed to setProgress, in order
    edits,      \* onDrop and removeFile calls since the batch was started
    invoiceData,    \* InvoiceDataProvider state
    quotationRates, \* QuotationProvider state
    dataToDisplay,  \* InvoiceDataTable: the memoized rows with their status
    renderError,    \* InvoiceDataTable: the error its last render raised, or Null
    exported,       \* InvoiceDataTable: the rows of the sheet this step wrote
    storeOp,        \* the last operation on the providers or the table
    qFile,      \* QuotationUploader state `file` (Null or a file)
    qBatch,     \* handleProcessQuotation: the `file` captured by the transition
    qpc,        \* handleProcessQuotation: position of the async transition
    qProgress,  \* QuotationUploader state `progress`
    qError      \* QuotationUploader state `error`

vars == <<cin, cout, cdone, cmpInvoice, cmpRates, cmpStatus, files, batch, pc, idx, edits, processedFiles,
          allExtractedData, processingErrorOccurred, basicDetails, progress,
          error, toasts, calls, handed, settled, progressed, invoiceData,
          quotationRates, dataToDisplay, renderError, exported, storeOp, qFile, qBatch,
          qpc, qProgress, qError>>

coerceVars == <<cin, cout, cdone>>
compareVars == <<cmpInvoice, cmpRates, cmpStatus>>
pureVars == <<coerceVars, compareVars>>
uploadVars == <<files, batch, pc, idx, edits, processedFiles, allExtractedData,
                processingErrorOccurred, basicDetails, progress, error,
                toasts, calls, handed, settled, progressed>>
storeVars  == <<invoiceData, quotationRates>>
tableVars == <<dataToDisplay, renderError, exported, storeOp>>
quotationVars == <<qFile, qBatch, qpc, qProgress, qError>>
\* what of the uploader the quotation uploader leaves alone
uploaderOwnVars == <<files, batch, pc, idx, edits, processedFiles, allExtractedData,
                     processingErrorOccurred, basicDetails, progress, error,
                     handed, settled, progressed>>

\* null and undefined where an object or a number is expected, undefined
\* where a string is expected, no error message, progress null
Null == [null |-> TRUE]
Undefined == [undefined |-> TRUE]
UndefinedStr == "undefined"
NoError == ""
NoProgress == 0 - 1

(***************************************************************************)
(* Bounds of the model.                                                    *)
(***************************************************************************)
MaxStrLen == 4      \* longest enumerated string handed to parseChargeValue
MaxFiles == 3       \* most files listed; most files of a batch and list edits during it
MaxStore == 3       \* most records an add may bring the store to
MaxQuotationOps == 3 \* most toasts of the quotation uploader (requests and clears)

(***************************************************************************)
(* JavaScript numbers.  A number is NaN or the decimal m / 10^e, kept      *)
(* normalised (no trailing zero in the fraction), so that equal numbers    *)
(* are equal records.  The amounts used are short decimals; sums are taken *)
(* only of amounts that binary floating point represents exactly.          *)
(***************************************************************************)
RECURSIVE Pow10(_)
Pow10(n) == IF n = 0 THEN 1 ELSE 10 * Pow10(n - 1)

RECURSIVE Norm(_, _)
Norm(m, e) ==
    IF e > 0 /\ m % 10 = 0 THEN Norm(m \div 10, e - 1)
    ELSE [nan |-> FALSE, m |-> m, e |-> e]

NaN == [nan |-> TRUE, m |-> 0, e |-> 0]
Dec(m, e) == Norm(m, e)
Int2Num(i) == [nan |-> FALSE, m |-> i, e |-> 0]
Zero == Int2Num(0)

isNaN(x) == x.nan

MaxOf(a, b) == IF a >= b THEN a ELSE b

\* a + b of JavaScript: NaN if either is NaN
NumAdd(a, b) ==
    IF a.nan \/ b.nan THEN NaN
    ELSE LET e == MaxOf(a.e, b.e)
         IN  Norm(a.m * Pow10(e - a.e) + b.m * Pow10(e - b.e), e)

\* a > b of JavaScript: FALSE if either is NaN
NumGt(a, b) ==
    /\ ~a.nan
    /\ ~b.nan
    /\ a.m * Pow10(MaxOf(a.e, b.e) - a.e) > b.m * Pow10(MaxOf(a.e, b.e) - b.e)

\* a >= b of JavaScript: FALSE if either is NaN
NumGeq(a, b) ==
    /\ ~a.nan
    /\ ~b.nan
    /\ a.m * Pow10(MaxOf(a.e, b.e) - a.e) >= b.m * Pow10(MaxOf(a.e, b.e) - b.e)

(***************************************************************************)
(* Values of any JavaScript type, as the document-understanding model may  *)
(* emit them in a field: typeof, and the number or the string.             *)
(***************************************************************************)
NumberVal(n)  == [t |-> "number", n |-> n, s |-> <<>>]
StringVal(s)  == [t |-> "string", n |-> Zero, s |-> s]
OtherVal(t)   == [t |-> t, n |-> Zero, s |-> <<>>]
UndefinedVal  == OtherVal("undefined")
NullVal       == OtherVal("object_null")
BooleanVal    == OtherVal("boolean")
ObjectVal     == OtherVal("object")

Digits == <<"0", "1", "2", "3", "4", "5", "6", "7", "8", "9">>
IsDigit(c) == \E i \in 1..10 : Digits[i] = c
DigitVal(c) == (CHOOSE i \in 1..10 : Digits[i] = c) - 1

\* value.replace(/[^0-9.-]+/g, ""): every character that is not a digit,
\* "." or "-" is removed, wherever it stands
RECURSIVE Clean(_)
Clean(s) ==
    IF s = <<>> THEN <<>>
    ELSE IF IsDigit(Head(s)) \/ Head(s) = "." \/ Head(s) = "-"
         THEN <<Head(s)>> \o Clean(Tail(s))
         ELSE Clean(Tail(s))

RECURSIVE TakeDigits(_)
TakeDigits(s) ==
    IF s # <<>> /\ IsDigit(Head(s)) THEN <<Head(s)>> \o TakeDigits(Tail(s))
    ELSE <<>>

RECURSIVE DigitsValue(_, _)
DigitsValue(s, acc) ==
    IF s = <<>> THEN acc ELSE DigitsValue(Tail(s), 10 * acc + DigitVal(Head(s)))

\* parseFloat of ECMAScript on a string of digits, "." and "-": the longest
\* prefix that is a decimal literal (optional sign, digits, optional "." and
\* digits, at least one digit), NaN when no prefix is one.
parseFloat(s) ==
    LET neg    == s # <<>> /\ Head(s) = "-"
        rest   == IF neg THEN Tail(s) ELSE s
        ip     == TakeDigits(rest)
        after  == SubSeq(rest, Len(ip) + 1, Len(rest))
        fp     == IF after # <<>> /\ Head(after) = "."
                  THEN TakeDigits(Tail(after)) ELSE <<>>
        mag    == DigitsValue(ip \o fp, 0)
    IN  IF ip = <<>> /\ fp = <<>> THEN NaN
        ELSE Norm(IF neg THEN 0 - mag ELSE mag, Len(fp))

parseChargeValue(value) ==
    IF value.t = "number" THEN (IF isNaN(value.n) THEN Zero ELSE value.n)
    ELSE IF value.t = "string"
         THEN LET number == parseFloat(Clean(value.s))
              IN  IF isNaN(number) THEN Zero ELSE number
    ELSE Zero

(***************************************************************************)
(* parseChargeValue as a pure function: Init draws the value, Coerce       *)
(* applies the function to it.                                             *)
(***************************************************************************)
CoerceAlphabet == {"0", "1", "5", ".", "-", ",", "R"}

BoundedStrings == UNION {[1..n -> CoerceAlphabet] : n \in 0..MaxStrLen}

\* amounts as invoices and model output write them
RupeeAmount  == <<"₹", "1", ",", "2", "3", "4", ".", "5", "0">>
RsAmount     == <<"R", "s", ".", " ", "1", ",", "2", "3", "4", ".", "5", "0">>
InrAmount    == <<"I", "N", "R", " ", "4", "5", "0", "0", ".", "0", "0">>
SlashAmount  == <<"1", ",", "2", "3", "4", ".", "5", "0", "/", "-">>
NamedStrings == {RupeeAmount, RsAmount, InrAmount, SlashAmount}

NumberInputs ==
    {NaN, Zero, Int2Num(100), Int2Num(0 - 100), Dec(12345, 1), Dec(0 - 5, 1)}

CoerceInputs ==
    {StringVal(s) : s \in BoundedStrings \cup NamedStrings}
        \cup {NumberVal(n) : n \in NumberInputs}
        \cup {UndefinedVal, NullVal, BooleanVal, ObjectVal}

InitCoerce ==
    /\ cin \in CoerceInputs
    /\ cout = Zero
    /\ cdone = FALSE

IdleCoerce ==
    /\ cin = UndefinedVal
    /\ cout = Zero
    /\ cdone = FALSE

Coerce ==
    /\ ~cdone
    /\ cout' = parseChargeValue(cin)
    /\ cdone' = TRUE
    /\ UNCHANGED <<cin, compareVars, uploadVars, storeVars, tableVars, quotationVars>>

\* a further value reaches the function (the flows call it once per field)
CoerceAgain ==
    /\ cdone
    /\ cin' \in {NumberVal(n) : n \in NumberInputs}
                \cup {StringVal(s) : s \in NamedStrings}
                \cup {UndefinedVal, NullVal, BooleanVal, ObjectVal}
    /\ cdone' = FALSE
    /\ UNCHANGED <<cout, compareVars, uploadVars, storeVars, tableVars, quotationVars>>


(***************************************************************************)
(* ChargeClassifier: classifyInvoiceChargesFlow.  A prompt call settles    *)
(* with a structured output, with no output, or by throwing.               *)
(***************************************************************************)
PromptOutput(o) == [kind |-> "output", out |-> o, message |-> ""]
PromptNoOutput(o) == [kind |-> "null", out |-> o, message |-> ""]
PromptThrows(o, msg) == [kind |-> "throw", out |-> o, message |-> msg]

CapabilityError == "capability request failed"

\* the prompt's output and the flow's return have the two fields of
\* ClassifyInvoiceChargesOutputSchema
RawCharges(own, reimb) ==
    [cargomenOwnCharges |-> own, reimbursementCharges |-> reimb]

Charges(own, reimb, err) ==
    [cargomenOwnCharges |-> own, reimbursementCharges |-> reimb, error |-> err]

ZeroCharges == Charges(Zero, Zero, NoError)
NoRawCharges == RawCharges(UndefinedVal, UndefinedVal)

\* the totals of the prompt's own example: own charges 5310 + 590 + 6160,
\* reimbursement 1516
ExampleCharges == RawCharges(NumberVal(Int2Num(12060)), NumberVal(Int2Num(1516)))

\* the mutant: an exception of the prompt is taken for no output
classifyInvoiceChargesFlow_SwallowsException(p) ==
    IF p.kind = "throw" \/ p.kind = "null" THEN ZeroCharges
    ELSE Charges(parseChargeValue(p.out.cargomenOwnCharges),
                 parseChargeValue(p.out.reimbursementCharges), NoError)

\* the mutant: no structured output is an error of the flow
classifyInvoiceChargesFlow_ThrowOnNoOutput(p) ==
    IF p.kind = "throw" THEN Charges(Zero, Zero, p.message)
    ELSE IF p.kind = "null" THEN Charges(Zero, Zero, "AI failed to classify charges.")
    ELSE Charges(parseChargeValue(p.out.cargomenOwnCharges),
                 parseChargeValue(p.out.reimbursementCharges), NoError)

\* p: how classifyInvoiceChargesPrompt settled.  An exception of the prompt
\* leaves the flow (error # NoError); no output gives the all-zero breakdown;
\* otherwise each of the two fields goes through parseChargeValue.
classifyInvoiceChargesFlow(p) ==
    IF p.kind = "throw" THEN Charges(Zero, Zero, p.message)
    ELSE IF p.kind = "null" THEN ZeroCharges
    ELSE Charges(parseChargeValue(p.out.cargomenOwnCharges),
                 parseChargeValue(p.out.reimbursementCharges), NoError)

(***************************************************************************)
(* The classifier with itemized actuals.  extractInvoiceDataFlow reads     *)
(* serviceChargesActual, loadingChargesActual and                          *)
(* transportationChargesActual from what classifyInvoiceCharges returns;   *)
(* the revision of the classifier that returns them is not among the       *)
(* sources, so it is written from the specification of the                 *)
(* ChargeClassifier: five fields, each coerced, the own charges reconciled *)
(* with the itemized sum, all zeros when the prompt has no output.         *)
(***************************************************************************)
RawChargesWithActuals(s, l, t, own, reimb) ==
    [serviceChargesActual |-> s, loadingChargesActual |-> l,
     transportationChargesActual |-> t, cargomenOwnCharges |-> own,
     reimbursementCharges |-> reimb]

ChargesWithActuals(s, l, t, own, reimb, err) ==
    [serviceChargesActual |-> s, loadingChargesActual |-> l,
     transportationChargesActual |-> t, cargomenOwnCharges |-> own,
     reimbursementCharges |-> reimb, error |-> err]

\* the itemized sum overrides the reported aggregate when it is positive and
\* differs from it
reconcileOwnCharges(s, l, t, own) ==
    LET sum == NumAdd(NumAdd(s, l), t)
    IN  IF NumGt(sum, Zero) /\ sum # own THEN sum ELSE own

classifyInvoiceChargesWithActuals(p) ==
    IF p.kind = "throw" THEN ChargesWithActuals(Zero, Zero, Zero, Zero, Zero, p.message)
    ELSE IF p.kind = "null" THEN ChargesWithActuals(Zero, Zero, Zero, Zero, Zero, NoError)
    ELSE LET s == parseChargeValue(p.out.serviceChargesActual)
             l == parseChargeValue(p.out.loadingChargesActual)
             t == parseChargeValue(p.out.transportationChargesActual)
             own == parseChargeValue(p.out.cargomenOwnCharges)
             reimb == parseChargeValue(p.out.reimbursementCharges)
         IN  ChargesWithActuals(s, l, t, reconcileOwnCharges(s, l, t, own), reimb, NoError)

(***************************************************************************)
(* FieldExtractor and ExtractionOrchestrator: extractInvoiceDataFlow and   *)
(* its wrapper extractInvoiceData.                                         *)
(***************************************************************************)
ShipmentTypes == {"air", "ocean", "unknown"}

BasicDetails(inv, type) ==
    [invoiceNumber |-> inv, invoiceDate |-> "2025-04-29",
     hawbNumber |-> "AFRAA0079028", termsOfInvoice |-> "CIF",
     jobNumber |-> "IMP/AIR/12771/04/25-26", shipmentType |-> type]

NoDetails == BasicDetails("", "unknown")

FieldsFailed == "Failed to extract basic details and shipment type from the invoice."

\* the mutant: the classifier is called however field extraction ended
basicDetailsError_NeverFails(p) == NoError

\* the mutant: the flow goes on without the field extractor's output
basicDetailsError_AcceptsNoOutput(p) ==
    IF p.kind = "throw" THEN p.message ELSE NoError

\* p: how extractBasicDetailsAndShipmentTypePrompt settled; the error the
\* flow raises before it calls the classifier, or NoError
basicDetailsError(p) ==
    IF p.kind = "throw" THEN p.message
    ELSE IF p.kind = "null" THEN FieldsFailed
    ELSE NoError

\* obj.name of JavaScript: undefined when the object has no such property
Property(obj, name) == IF name \in DOMAIN obj THEN obj[name] ELSE Undefined

\* the mutant: the own charges are read from the reimbursement charges
combinedOutput_OwnFromReimbursement(bd, charges) ==
    [invoiceNumber |-> bd.invoiceNumber, invoiceDate |-> bd.invoiceDate,
     hawbNumber |-> bd.hawbNumber, termsOfInvoice |-> bd.termsOfInvoice,
     jobNumber |-> bd.jobNumber, shipmentType |-> bd.shipmentType,
     serviceChargesActual |-> Property(charges, "serviceChargesActual"),
     loadingChargesActual |-> Property(charges, "loadingChargesActual"),
     transportationChargesActual |-> Property(charges, "transportationChargesActual"),
     cargomenOwnCharges |-> Property(charges, "reimbursementCharges"),
     reimbursementCharges |-> Property(charges, "reimbursementCharges"),
     filename |-> UndefinedStr]

\* the flow's combinedOutput: identification from the field extractor, five
\* amounts read from what classifyInvoiceCharges returned; an amount the
\* classifier's return value does not have is undefined; no filename yet
combinedOutput(bd, charges) ==
    [invoiceNumber |-> bd.invoiceNumber, invoiceDate |-> bd.invoiceDate,
     hawbNumber |-> bd.hawbNumber, termsOfInvoice |-> bd.termsOfInvoice,
     jobNumber |-> bd.jobNumber, shipmentType |-> bd.shipmentType,
     serviceChargesActual |-> Property(charges, "serviceChargesActual"),
     loadingChargesActual |-> Property(charges, "loadingChargesActual"),
     transportationChargesActual |-> Property(charges, "transportationChargesActual"),
     cargomenOwnCharges |-> Property(charges, "cargomenOwnCharges"),
     reimbursementCharges |-> Property(charges, "reimbursementCharges"),
     filename |-> UndefinedStr]

\* the mutant: the wrapper returns the flow's output as it is
extractInvoiceData_KeepsFlowFilename(flowOutput, filename) == flowOutput

\* filename: input.filename || flowOutput.filename
extractInvoiceData(flowOutput, filename) ==
    [flowOutput EXCEPT !.filename =
        IF filename # "" /\ filename # UndefinedStr THEN filename ELSE flowOutput.filename]

\* the flow is defined with outputSchema ExtractInvoiceDataOutputSchema:
\* cargomenOwnCharges and reimbursementCharges are required numbers, the
\* three actuals are optional.  The error of a return value the schema does
\* not admit, or NoError.
outputSchemaError(output) ==
    IF output.cargomenOwnCharges = Undefined \/ output.reimbursementCharges = Undefined
    THEN "Schema validation failed."
    ELSE NoError

\* the record extractInvoiceData returns for an air invoice whose charges
\* were classified as ExampleCharges
UploadedRecord(inv, file) ==
    extractInvoiceData(
        combinedOutput(BasicDetails(inv, "air"),
                       classifyInvoiceChargesFlow(PromptOutput(ExampleCharges))),
        file)

(***************************************************************************)
(* RateComparator: compareCharges of the invoice table.                    *)
(***************************************************************************)
QuotationRates(airService, airLoading, airTransportation, oceanService, oceanLoading, oceanTransportation) ==
    [airServiceChargeRate |-> airService,
     airLoadingChargeRate |-> airLoading,
     airTransportationChargeRate |-> airTransportation,
     oceanServiceChargeRate |-> oceanService,
     oceanLoadingChargeRate |-> oceanLoading,
     oceanTransportationChargeRate |-> oceanTransportation]

\* x ?? 0
OrZero(x) == IF x = Undefined \/ x = Null THEN Zero ELSE x

\* the mutant: the shipment type is looked at before the schedule
compareCharges_TypeFirst(invoice, rates) ==
    IF invoice.shipmentType = "unknown" THEN "invoice_type_unknown"
    ELSE IF rates = Null THEN "no_quotation_data"
    ELSE "matched"

\* the mutant: no rule for the unknown shipment type
compareCharges_NoUnknownRule(invoice, rates) ==
    IF rates = Null THEN "no_quotation_data"
    ELSE IF invoice.shipmentType = "air"
              /\ rates.airServiceChargeRate = Undefined
              /\ rates.airLoadingChargeRate = Undefined
         THEN "not_comparable_charges"
    ELSE "matched"

\* the shape shared by the comparator's variants below: Skips(rate) tells
\* whether a ceiling is left out of the checks, Exceeds(actual, rate) whether
\* an actual is over its ceiling, EachSkipped whether one skipped ceiling is
\* enough for not_comparable_charges, t whether transportation is checked too
compareChargesWith(invoice, rates, Skips(_), Exceeds(_, _), EachSkipped, t) ==
    IF rates = Null THEN "no_quotation_data"
    ELSE IF invoice.shipmentType = "unknown" THEN "invoice_type_unknown"
    ELSE
      LET s == IF invoice.serviceChargesActual = Undefined THEN Zero
               ELSE invoice.serviceChargesActual
          l == IF invoice.loadingChargesActual = Undefined THEN Zero
               ELSE invoice.loadingChargesActual
          sr == IF invoice.shipmentType = "air" THEN rates.airServiceChargeRate
                ELSE rates.oceanServiceChargeRate
          lr == IF invoice.shipmentType = "air" THEN rates.airLoadingChargeRate
                ELSE rates.oceanLoadingChargeRate
          tr == IF invoice.shipmentType = "air" THEN rates.airTransportationChargeRate
                ELSE rates.oceanTransportationChargeRate
          Over(actual, rate) == ~Skips(rate) /\ Exceeds(actual, rate)
      IN  IF invoice.shipmentType \notin {"air", "ocean"} THEN "matched"
          ELSE IF (IF EachSkipped THEN Skips(sr) \/ Skips(lr) ELSE Skips(sr) /\ Skips(lr))
          THEN "not_comparable_charges"
          ELSE IF Over(s, sr) \/ Over(l, lr)
                  \/ (t /\ Over(invoice.transportationChargesActual, tr))
          THEN "mismatched" ELSE "matched"

\* the mutant: one absent ceiling is enough for not_comparable_charges
compareCharges_EitherAbsent(invoice, rates) ==
    LET Skips(rate) == rate = Undefined
        Exceeds(actual, rate) == NumGt(actual, rate)
    IN  compareChargesWith(invoice, rates, Skips, Exceeds, TRUE, FALSE)

\* the mutant: an actual equal to its ceiling is over it
compareCharges_StrictCeiling(invoice, rates) ==
    LET Skips(rate) == rate = Undefined
        Exceeds(actual, rate) == NumGeq(actual, rate)
    IN  compareChargesWith(invoice, rates, Skips, Exceeds, FALSE, FALSE)

\* the mutant: the transportation actual is checked against its rate too
compareCharges_WithTransportation(invoice, rates) ==
    LET Skips(rate) == rate = Undefined
        Exceeds(actual, rate) == NumGt(actual, rate)
    IN  compareChargesWith(invoice, rates, Skips, Exceeds, FALSE, TRUE)

\* the mutant: a ceiling is tested for truthiness, so 0 counts as absent
compareCharges_FalsyCeilingSkips(invoice, rates) ==
    LET Skips(rate) == rate = Undefined \/ rate = Zero
        Exceeds(actual, rate) == NumGt(actual, rate)
    IN  compareChargesWith(invoice, rates, Skips, Exceeds, FALSE, FALSE)

\* the mutant: an actual has to be equal to its ceiling
compareCharges_ExactCeiling(invoice, rates) ==
    LET Skips(rate) == rate = Undefined
        Exceeds(actual, rate) == actual # rate
    IN  compareChargesWith(invoice, rates, Skips, Exceeds, FALSE, FALSE)

\* the mutant: an absent actual counts as over every ceiling
compareCharges_AbsentActualExceeds(invoice, rates) ==
    LET Skips(rate) == rate = Undefined
        Exceeds(actual, rate) == NumGt(actual, rate)
        Filled(x) == IF x = Undefined THEN Int2Num(1000000000) ELSE x
        filled == [invoice EXCEPT !.serviceChargesActual = Filled(@),
                                  !.loadingChargesActual = Filled(@)]
    IN  compareChargesWith(filled, rates, Skips, Exceeds, FALSE, FALSE)

compareCharges(invoice, rates) ==
    IF rates = Null THEN "no_quotation_data"
    ELSE IF invoice.shipmentType = "unknown" THEN "invoice_type_unknown"
    ELSE
      LET invoiceServiceActual == OrZero(invoice.serviceChargesActual)
          invoiceLoadingActual == OrZero(invoice.loadingChargesActual)
          Exceeds(actual, rate) == rate # Undefined /\ NumGt(actual, rate)
          serviceChargeMatch ==
              IF invoice.shipmentType = "air"
              THEN ~Exceeds(invoiceServiceActual, rates.airServiceChargeRate)
              ELSE IF invoice.shipmentType = "ocean"
              THEN ~Exceeds(invoiceServiceActual, rates.oceanServiceChargeRate)
              ELSE TRUE
          loadingChargeMatch ==
              IF invoice.shipmentType = "air"
              THEN ~Exceeds(invoiceLoadingActual, rates.airLoadingChargeRate)
              ELSE IF invoice.shipmentType = "ocean"
              THEN ~Exceeds(invoiceLoadingActual, rates.oceanLoadingChargeRate)
              ELSE TRUE
      IN
        IF /\ invoice.shipmentType = "air"
           /\ rates.airServiceChargeRate = Undefined
           /\ rates.airLoadingChargeRate = Undefined
        THEN "not_comparable_charges"
        ELSE IF /\ invoice.shipmentType = "ocean"
                /\ rates.oceanServiceChargeRate = Undefined
                /\ rates.oceanLoadingChargeRate = Undefined
        THEN "not_comparable_charges"
        ELSE IF serviceChargeMatch /\ loadingChargeMatch
             THEN "matched" ELSE "mismatched"

\* compareCharges as a pure function: Init draws the invoice and the rates
CompareTypes == {"air", "ocean", "unknown", UndefinedStr}
ServiceActuals == {Undefined, Zero, Int2Num(4000), Int2Num(4001)}
LoadingActuals == {Undefined, Zero, Int2Num(200), Int2Num(99999)}
TransportationActuals == {Zero, Int2Num(5400)}
ServiceRates == {Undefined, Zero, Int2Num(4000)}
LoadingRates == {Undefined, Zero, Int2Num(200)}
TransportationRates == {Undefined, Int2Num(3500)}

InvoiceWith(type, s, l, t) ==
    [invoiceNumber |-> "INV1", invoiceDate |-> "2025-04-29",
     hawbNumber |-> "AFRAA0079028", termsOfInvoice |-> "CIF",
     jobNumber |-> "IMP/AIR/12771/04/25-26", shipmentType |-> type,
     serviceChargesActual |-> s, loadingChargesActual |-> l,
     transportationChargesActual |-> t,
     cargomenOwnCharges |-> NumAdd(NumAdd(OrZero(s), OrZero(l)), t),
     reimbursementCharges |-> Int2Num(1180), filename |-> "a.pdf"]

CompareInvoices ==
    {InvoiceWith(type, s, l, t) :
        type \in CompareTypes, s \in ServiceActuals, l \in LoadingActuals,
        t \in TransportationActuals}

CompareSchedules ==
    {QuotationRates(as, al, at, os, ol, ot) :
        as \in ServiceRates, al \in LoadingRates, at \in TransportationRates,
        os \in ServiceRates, ol \in LoadingRates, ot \in TransportationRates}

InitCompare ==
    /\ cmpInvoice \in CompareInvoices
    /\ cmpRates \in CompareSchedules \cup {Null}
    /\ cmpStatus = ""

IdleCompare ==
    /\ cmpInvoice = InvoiceWith("unknown", Undefined, Undefined, Zero)
    /\ cmpRates = Null
    /\ cmpStatus = ""

Compare ==
    /\ cmpStatus = ""
    /\ cmpStatus' = compareCharges(cmpInvoice, cmpRates)
    /\ UNCHANGED <<cmpInvoice, cmpRates, coerceVars, uploadVars, storeVars, tableVars, quotationVars>>

\* the active schedule is cleared and the table computes the status again
CompareAgain ==
    /\ cmpStatus # ""
    /\ cmpRates # Null
    /\ cmpRates' = Null
    /\ cmpStatus' = ""
    /\ UNCHANGED <<cmpInvoice, coerceVars, uploadVars, storeVars, tableVars, quotationVars>>

\* the table renders the record with another transportation actual against
\* a schedule with other transportation rates
CompareTransportation ==
    /\ cmpStatus # ""
    /\ cmpRates # Null
    /\ \E t \in TransportationActuals, at \in TransportationRates,
          ot \in TransportationRates :
          /\ cmpInvoice' = [cmpInvoice EXCEPT !.transportationChargesActual = t]
          /\ cmpRates' = [cmpRates EXCEPT !.airTransportationChargeRate = at,
                                          !.oceanTransportationChargeRate = ot]
    /\ cmpStatus' = compareCharges(cmpInvoice', cmpRates')
    /\ UNCHANGED <<coerceVars, uploadVars, storeVars, tableVars, quotationVars>>

\* the table renders a record of the same invoice with other service and
\* loading actuals against the same schedule
CompareActuals ==
    /\ cmpStatus # ""
    /\ cmpRates # Null
    /\ \E sa \in ServiceActuals, la \in LoadingActuals :
          cmpInvoice' = InvoiceWith(cmpInvoice.shipmentType, sa, la,
                                    cmpInvoice.transportationChargesActual)
    /\ cmpStatus' = compareCharges(cmpInvoice', cmpRates)
    /\ UNCHANGED <<cmpRates, coerceVars, uploadVars, storeVars, tableVars, quotationVars>>

(***************************************************************************)
(* Result store: InvoiceDataProvider.                                      *)
(***************************************************************************)
\* the mutant: a record is a duplicate when its invoice number is stored
addInvoiceData_ByInvoiceNumberOnly(prevData, dataToAdd) ==
    LET IsNew(newItem) ==
            ~\E k \in 1..Len(prevData) :
                prevData[k].invoiceNumber = newItem.invoiceNumber
    IN  prevData \o SelectSeq(dataToAdd, IsNew)

\* the mutant: a stored record is replaced by the new record of its pair
addInvoiceData_ReplacesStored(prevData, dataToAdd) ==
    LET SamePair(a, b) == a.invoiceNumber = b.invoiceNumber /\ a.filename = b.filename
        IsNew(newItem) == ~\E k \in 1..Len(prevData) : SamePair(prevData[k], newItem)
        Latest(old) ==
            IF \E j \in 1..Len(dataToAdd) : SamePair(dataToAdd[j], old)
            THEN dataToAdd[CHOOSE j \in 1..Len(dataToAdd) :
                              /\ SamePair(dataToAdd[j], old)
                              /\ \A i \in (j + 1)..Len(dataToAdd) :
                                    ~SamePair(dataToAdd[i], old)]
            ELSE old
    IN  [k \in 1..Len(prevData) |-> Latest(prevData[k])] \o SelectSeq(dataToAdd, IsNew)

addInvoiceData(prevData, dataToAdd) ==
    LET IsNew(newItem) ==
            ~\E k \in 1..Len(prevData) :
                /\ prevData[k].invoiceNumber = newItem.invoiceNumber
                /\ prevData[k].filename = newItem.filename
    IN  prevData \o SelectSeq(dataToAdd, IsNew)

(***************************************************************************)
(* InvoiceDataTable: the memoized rows and the export.                     *)
(***************************************************************************)
\* { ...invoice, comparisonStatus: compareCharges(invoice, quotationRates) }
DisplayRow(invoice, rates) ==
    [f \in DOMAIN invoice \cup {"comparisonStatus"} |->
        IF f = "comparisonStatus" THEN compareCharges(invoice, rates) ELSE invoice[f]]

DisplayRows(data, rates) == [k \in 1..Len(data) |-> DisplayRow(data[k], rates)]

\* the row template of the table: invoice.cargomenOwnCharges.toFixed(2) and
\* invoice.reimbursementCharges.toFixed(2) raise a TypeError when the amount
\* is undefined
RowTemplateThrows(invoice) ==
    invoice.cargomenOwnCharges = Undefined \/ invoice.reimbursementCharges = Undefined

ToFixedOfUndefined ==
    [name |-> "TypeError",
     message |-> "Cannot read properties of undefined (reading 'toFixed')"]

\* the render of the table over its rows: the error a row raises, or Null.
\* No component catches the error, so the page is gone once a render raised.
renderErrorOf(rows) ==
    IF \E k \in 1..Len(rows) : RowTemplateThrows(rows[k]) THEN ToFixedOfUndefined
    ELSE Null

\* the page is mounted: its handlers can be called
PageWorks == renderError = Null

\* the mutant: the memo depends on invoiceData only
useMemoDisplay_DataOnly(previous, prevData, prevRates, data, rates) ==
    IF data # prevData THEN DisplayRows(data, rates) ELSE previous

\* React.useMemo(..., [invoiceData, quotationRates]): the rows are computed
\* again when one of the two has changed, and kept otherwise
\* (a new array or object of equal content yields equal rows)
useMemoDisplay(previous, prevData, prevRates, data, rates) ==
    IF data # prevData \/ rates # prevRates THEN DisplayRows(data, rates)
    ELSE previous

\* x.toFixed(2), as the number of hundredths written (ties away from zero)
toFixed2(x) ==
    IF x.nan THEN [nan |-> TRUE, hundredths |-> 0]
    ELSE LET abs == IF x.m < 0 THEN 0 - x.m ELSE x.m
             twice == IF x.e <= 2 THEN 2 * abs * Pow10(2 - x.e)
                      ELSE (2 * abs) \div Pow10(x.e - 2)
             rounded == (twice + 1) \div 2
         IN  [nan |-> FALSE, hundredths |-> IF x.m < 0 THEN 0 - rounded ELSE rounded]

\* x?.toFixed(2) || '0.00'
toFixed2OrZero(x) == IF x = Undefined THEN toFixed2(Zero) ELSE toFixed2(x)

\* one row of dataForSheet
SheetRow(item) ==
    [Status |-> IF item.comparisonStatus = "" THEN "N/A" ELSE item.comparisonStatus,
     InvoiceDate |-> item.invoiceDate,
     InvoiceNo |-> item.invoiceNumber,
     AwbBlNo |-> item.hawbNumber,
     TermsOfInvoice |-> item.termsOfInvoice,
     JobNumber |-> item.jobNumber,
     ShipmentType |-> IF item.shipmentType \in {UndefinedStr, ""} THEN "unknown"
                      ELSE item.shipmentType,
     ActualServiceCharges |-> toFixed2OrZero(item.serviceChargesActual),
     ActualLoadingCharges |-> toFixed2OrZero(item.loadingChargesActual),
     ActualTransportationCharges |-> toFixed2OrZero(item.transportationChargesActual),
     CargomenOwnCharges |-> toFixed2(item.cargomenOwnCharges),
     ReimbursementCharges |-> toFixed2(item.reimbursementCharges),
     TotalCharges |-> toFixed2(NumAdd(item.cargomenOwnCharges, item.reimbursementCharges)),
     SourceFile |-> IF item.filename \in {UndefinedStr, ""} THEN "N/A" ELSE item.filename]

dataForSheet(rows) == [k \in 1..Len(rows) |-> SheetRow(rows[k])]

\* an entry of storeOp: the operation, a bit that flips with every operation,
\* the records handed to add and how many of them it appended, the schedule
\* handed to set
NoOp == [op |-> "none", tick |-> FALSE, arg |-> <<>>, added |-> 0, rates |-> Null]
NextOp(op, arg, added, rates) ==
    [op |-> op, tick |-> ~storeOp.tick, arg |-> arg, added |-> added, rates |-> rates]

(***************************************************************************)
(* The providers' operations and the table's export, called one at a time  *)
(* with bounded arguments.                                                 *)
(***************************************************************************)
\* newData: ExtractedData | ExtractedData[]
One(r) == [isArray |-> FALSE, value |-> <<r>>]
Many(records) == [isArray |-> TRUE, value |-> records]

StoreRecord(inv, file, type, s) ==
    [InvoiceWith(type, s, Int2Num(200), Zero) EXCEPT !.invoiceNumber = inv,
                                                     !.filename = file]

\* two extractions of INV1 from a.pdf, another invoice from a.pdf, INV1 from
\* another file, and INV1 from a.pdf as the uploader's flow returns it
StoreRecords ==
    {StoreRecord("INV1", "a.pdf", "air", Int2Num(4000)),
     StoreRecord("INV1", "a.pdf", "air", Int2Num(4001)),
     StoreRecord("INV2", "a.pdf", "ocean", Int2Num(4000)),
     StoreRecord("INV1", "b.pdf", "unknown", Int2Num(4001)),
     UploadedRecord("INV1", "a.pdf")}

AddInputs ==
    {One(r) : r \in StoreRecords}
        \cup {Many(<<r1, r2>>) : r1 \in StoreRecords, r2 \in StoreRecords}
        \cup {Many(<<>>)}

StoreSchedules ==
    {QuotationRates(Int2Num(4000), Int2Num(200), Undefined,
                    Undefined, Undefined, Int2Num(3500)),
     QuotationRates(Zero, Undefined, Undefined,
                    Int2Num(4000), Undefined, Undefined)}

AddInvoiceData(inputs, most) ==
    /\ PageWorks
    /\ \E newData \in inputs :
        LET dataToAdd == IF newData.isArray THEN newData.value
                         ELSE <<newData.value[1]>>
        IN  /\ Len(invoiceData) + Len(dataToAdd) <= most
            /\ invoiceData' = addInvoiceData(invoiceData, dataToAdd)
            /\ dataToDisplay' = useMemoDisplay(dataToDisplay, invoiceData,
                                    quotationRates, invoiceData', quotationRates)
            /\ renderError' = renderErrorOf(dataToDisplay')
            /\ storeOp' = NextOp("add", dataToAdd,
                                 Len(invoiceData') - Len(invoiceData), Null)
            /\ exported' = <<>>
            /\ UNCHANGED <<quotationRates, quotationVars, uploadVars, pureVars>>

ClearInvoiceData ==
    /\ PageWorks
    /\ invoiceData' = <<>>
    /\ dataToDisplay' = useMemoDisplay(dataToDisplay, invoiceData, quotationRates,
                                       invoiceData', quotationRates)
    /\ renderError' = renderErrorOf(dataToDisplay')
    /\ storeOp' = NextOp("clear", <<>>, 0, Null)
    /\ exported' = <<>>
    /\ UNCHANGED <<quotationRates, quotationVars, uploadVars, pureVars>>

SetQuotationRates(schedules) ==
    /\ PageWorks
    /\ \E rates \in schedules \cup {Null} :
        /\ quotationRates' = rates
        /\ dataToDisplay' = useMemoDisplay(dataToDisplay, invoiceData, quotationRates,
                                           invoiceData, quotationRates')
        /\ renderError' = renderErrorOf(dataToDisplay')
        /\ storeOp' = NextOp("set", <<>>, 0, rates)
        /\ exported' = <<>>
        /\ UNCHANGED <<invoiceData, quotationVars, uploadVars, pureVars>>

ClearQuotationRates ==
    /\ PageWorks
    /\ quotationRates' = Null
    /\ dataToDisplay' = useMemoDisplay(dataToDisplay, invoiceData, quotationRates,
                                       invoiceData, quotationRates')
    /\ renderError' = renderErrorOf(dataToDisplay')
    /\ storeOp' = NextOp("clearRates", <<>>, 0, Null)
    /\ exported' = <<>>
    /\ UNCHANGED <<invoiceData, quotationVars, uploadVars, pureVars>>

\* handleExport: nothing is written for an empty table.  The rows are those
\* of a render that raised nothing, so each has both amounts and toFixed
\* raises nothing here.
HandleExport ==
    /\ PageWorks
    /\ Len(dataToDisplay) # 0
    /\ exported' = dataForSheet(dataToDisplay)
    /\ storeOp' = NextOp("export", <<>>, 0, Null)
    /\ UNCHANGED <<invoiceData, quotationRates, dataToDisplay, renderError, quotationVars,
                   uploadVars, pureVars>>

(***************************************************************************)
(* InvoiceUploader.handleUpload: the batch loop.  One action per point at  *)
(* which the async transition resumes: the click, and the settling of      *)
(* readFileAsDataURL, of the field-extraction prompt and of the            *)
(* classification prompt.  Everything up to the next await, the end of the *)
(* loop and the completion report included, belongs to the same action.    *)
(***************************************************************************)
AllNames == <<"a.pdf", "b.pdf", "c.pdf", "d.pdf", "e.pdf">>

ErrorToast(file, message) ==
    [kind |-> "error", file |-> file, message |-> message,
     total |-> 0, succeeded |-> 0, failed |-> 0]
CompleteToast(total) ==
    [kind |-> "complete", file |-> "", message |-> "",
     total |-> total, succeeded |-> total, failed |-> 0]
FinishedWithErrorsToast(total, succeeded) ==
    [kind |-> "finished_with_errors", file |-> "", message |-> "",
     total |-> total, succeeded |-> succeeded, failed |-> total - succeeded]

SelectFilesError == [file |-> "", message |-> "Please select at least one PDF file to upload."]
ProcessingError(file, message) == [file |-> file, message |-> message]

\* the mutant: Math.floor in place of Math.round
RoundPercent_Truncates(processed, total) == (100 * processed) \div total

\* Math.round((processedFiles / totalFiles) * 100)
RoundPercent(processed, total) == (200 * processed + total) \div (2 * total)

\* how readFileAsDataURL settled, and the error the loop raises for it
ReadOutcomes == {"pdf", "no_mime", "other_mime", "reject_event", "reject_not_string"}

\* the mutant: any data URI the read resolves with is handed to extraction
readError_AcceptsAnyDataUri(r, name) ==
    CASE r \in {"pdf", "no_mime", "other_mime"} -> NoError
      [] r = "reject_event" -> "An unknown error occurred."
      [] r = "reject_not_string" -> "Failed to read file as Data URL."

readError(r, name) ==
    CASE r = "pdf" -> NoError
      [] r = "no_mime" -> "Assignment to constant variable."
      [] r = "other_mime" -> "File " \o name \o " could not be read as a valid PDF data URI."
      [] r = "reject_event" -> "An unknown error occurred."
      [] r = "reject_not_string" -> "Failed to read file as Data URL."

\* an entry of `calls`: a call is issued for document doc, or it returns
Call(what, doc) == <<"call", what, doc, "">>
Return(what, doc, how) == <<"return", what, doc, how>>

\* an entry of `settled`: the document, whether extraction produced a record,
\* the stage that ended it, the last prompt outcome, the field extractor's
\* details and the record (on success), the error message (on failure)
Settlement(doc, ok, stage, prompt, bd, rec, message) ==
    [doc |-> doc, file |-> batch[doc], ok |-> ok, stage |-> stage,
     prompt |-> prompt, bd |-> bd, rec |-> rec, message |-> message]

NoPrompt == PromptNoOutput(NoRawCharges)
NoRecord == extractInvoiceData(combinedOutput(NoDetails, ZeroCharges), UndefinedStr)

\* the mutant: the first failure ends the transition (the earlier uploader)
EndOfIteration_AbortOnError(data, failed, err, tsts, ret, entry) ==
    /\ processedFiles' = IF entry.ok THEN processedFiles + 1 ELSE processedFiles
    /\ allExtractedData' = data
    /\ processingErrorOccurred' = failed
    /\ basicDetails' = Null
    /\ error' = err
    /\ settled' = Append(settled, entry)
    /\ IF ~entry.ok
       THEN /\ pc' = "done"
            /\ progress' = NoProgress
            /\ progressed' = Append(progressed, NoProgress)
            /\ toasts' = tsts
            /\ calls' = ret
            /\ UNCHANGED <<idx, handed, invoiceData, files, dataToDisplay, renderError, storeOp>>
       ELSE IF idx < Len(batch)
       THEN /\ idx' = idx + 1
            /\ pc' = "read"
            /\ progress' = RoundPercent(processedFiles + 1, Len(batch))
            /\ progressed' = Append(progressed, RoundPercent(processedFiles + 1, Len(batch)))
            /\ toasts' = tsts
            /\ calls' = Append(ret, Call("read", idx + 1))
            /\ UNCHANGED <<handed, invoiceData, files, dataToDisplay, renderError, storeOp>>
       ELSE /\ pc' = "done"
            /\ progress' = NoProgress
            /\ progressed' = progressed \o
                    <<RoundPercent(processedFiles + 1, Len(batch)), NoProgress>>
            /\ calls' = ret
            /\ handed' = Append(handed, data)
            /\ invoiceData' = addInvoiceData(invoiceData, data)
            /\ dataToDisplay' = useMemoDisplay(dataToDisplay, invoiceData, quotationRates,
                                               invoiceData', quotationRates)
            /\ renderError' = renderErrorOf(dataToDisplay')
            /\ storeOp' = NextOp("add", data, Len(invoiceData') - Len(invoiceData), Null)
            /\ toasts' = Append(tsts, CompleteToast(Len(batch)))
            /\ files' = <<>>
            /\ UNCHANGED idx
    /\ UNCHANGED <<batch, edits, quotationRates, exported, quotationVars, pureVars>>

\* the mutant: the error of a failed document leaves the loop, and the
\* transition ends there without report or reset
EndOfIteration_EscapesOnError(data, failed, err, tsts, ret, entry) ==
    IF ~entry.ok
    THEN /\ pc' = "escaped"
         /\ settled' = Append(settled, entry)
         /\ calls' = ret
         /\ toasts' = tsts
         /\ error' = err
         /\ processingErrorOccurred' = failed
         /\ allExtractedData' = data
         /\ basicDetails' = Null
         /\ UNCHANGED <<files, batch, idx, edits, processedFiles, progress, progressed,
                        handed, storeVars, tableVars, quotationVars, pureVars>>
    ELSE
         /\ processedFiles' = processedFiles + 1
         /\ allExtractedData' = data
         /\ processingErrorOccurred' = failed
         /\ basicDetails' = Null
         /\ error' = err
         /\ settled' = Append(settled, entry)
         /\ IF idx < Len(batch)
            THEN /\ idx' = idx + 1
                 /\ pc' = "read"
                 /\ progress' = RoundPercent(processedFiles + 1, Len(batch))
                 /\ progressed' = Append(progressed, RoundPercent(processedFiles + 1, Len(batch)))
                 /\ toasts' = tsts
                 /\ calls' = Append(ret, Call("read", idx + 1))
                 /\ UNCHANGED <<handed, invoiceData, files, dataToDisplay, renderError, storeOp>>
            ELSE LET IsLeft(f) == ~\E k \in 1..Len(data) : data[k].filename = f
                 IN  /\ pc' = "done"
                     /\ progress' = NoProgress
                     /\ progressed' = progressed \o
                             <<RoundPercent(processedFiles + 1, Len(batch)), NoProgress>>
                     /\ handed' = IF Len(data) > 0 THEN Append(handed, data) ELSE handed
                     /\ invoiceData' = IF Len(data) > 0
                                       THEN addInvoiceData(invoiceData, data)
                                       ELSE invoiceData
                     /\ dataToDisplay' = useMemoDisplay(dataToDisplay, invoiceData,
                                               quotationRates, invoiceData', quotationRates)
                     /\ renderError' = renderErrorOf(dataToDisplay')
                     /\ storeOp' = IF Len(data) > 0
                                   THEN NextOp("add", data,
                                               Len(invoiceData') - Len(invoiceData), Null)
                                   ELSE storeOp
                     /\ toasts' = Append(tsts,
                                     IF ~failed THEN CompleteToast(Len(batch))
                                     ELSE FinishedWithErrorsToast(Len(batch), Len(data)))
                     /\ files' = IF ~failed THEN <<>> ELSE SelectSeq(files, IsLeft)
                     /\ calls' = ret
                     /\ UNCHANGED idx
         /\ UNCHANGED <<batch, edits, quotationRates, exported, quotationVars, pureVars>>

\* the finally block of one iteration, then either the next iteration up to
\* its await of readFileAsDataURL, or the code after the loop
EndOfIteration(data, failed, err, tsts, ret, entry) ==
    /\ processedFiles' = processedFiles + 1
    /\ allExtractedData' = data
    /\ processingErrorOccurred' = failed
    /\ basicDetails' = Null
    /\ error' = err
    /\ settled' = Append(settled, entry)
    /\ IF idx < Len(batch)
       THEN /\ idx' = idx + 1
            /\ pc' = "read"
            /\ progress' = RoundPercent(processedFiles + 1, Len(batch))
            /\ progressed' = Append(progressed, RoundPercent(processedFiles + 1, Len(batch)))
            /\ toasts' = tsts
            /\ calls' = Append(ret, Call("read", idx + 1))
            /\ UNCHANGED <<handed, invoiceData, files, dataToDisplay, renderError, storeOp>>
       ELSE LET IsLeft(f) == ~\E k \in 1..Len(data) : data[k].filename = f
            IN  /\ pc' = "done"
                /\ progress' = NoProgress
                /\ progressed' = progressed \o
                        <<RoundPercent(processedFiles + 1, Len(batch)), NoProgress>>
                /\ handed' = IF Len(data) > 0 THEN Append(handed, data) ELSE handed
                /\ invoiceData' = IF Len(data) > 0
                                  THEN addInvoiceData(invoiceData, data)
                                  ELSE invoiceData
                /\ dataToDisplay' = useMemoDisplay(dataToDisplay, invoiceData,
                                          quotationRates, invoiceData', quotationRates)
                /\ renderError' = renderErrorOf(dataToDisplay')
                /\ storeOp' = IF Len(data) > 0
                              THEN NextOp("add", data,
                                          Len(invoiceData') - Len(invoiceData), Null)
                              ELSE storeOp
                /\ toasts' = Append(tsts,
                                IF ~failed THEN CompleteToast(Len(batch))
                                ELSE FinishedWithErrorsToast(Len(batch), Len(data)))
                /\ files' = IF ~failed THEN <<>> ELSE SelectSeq(files, IsLeft)
                /\ calls' = ret
                /\ UNCHANGED idx
    /\ UNCHANGED <<batch, edits, quotationRates, exported, quotationVars, pureVars>>

\* the mutant: the catch block keeps what was extracted of the document
CatchError_KeepsPartial(stage, prompt, how, message) ==
    EndOfIteration(Append(allExtractedData,
                          extractInvoiceData(
                              combinedOutput(IF basicDetails = Null THEN NoDetails
                                             ELSE basicDetails, ZeroCharges),
                              batch[idx])),
                   TRUE,
                   ProcessingError(batch[idx], message),
                   Append(toasts, ErrorToast(batch[idx], message)),
                   Append(calls, Return(stage, idx, how)),
                   Settlement(idx, FALSE, stage, prompt, NoDetails, NoRecord, message))

\* the mutant: the catch block forgets to raise processingErrorOccurred
CatchError_NoFlag(stage, prompt, how, message) ==
    EndOfIteration(allExtractedData, processingErrorOccurred,
                   ProcessingError(batch[idx], message),
                   Append(toasts, ErrorToast(batch[idx], message)),
                   Append(calls, Return(stage, idx, how)),
                   Settlement(idx, FALSE, stage, prompt, NoDetails, NoRecord, message))

\* the catch block: the document is reported, nothing is pushed
CatchError(stage, prompt, how, message) ==
    EndOfIteration(allExtractedData, TRUE,
                   ProcessingError(batch[idx], message),
                   Append(toasts, ErrorToast(batch[idx], message)),
                   Append(calls, Return(stage, idx, how)),
                   Settlement(idx, FALSE, stage, prompt, NoDetails, NoRecord, message))

\* onDrop.  A drop brings any number of files; each has a name and a type,
\* which is 'application/pdf' or not.  The PDFs whose name is not listed yet
\* are appended (two files of one drop are not compared with each other);
\* a file of another type in the drop sets the error.  The handler is not
\* disabled while a batch runs.  The `most` first files of AllNames are at
\* hand; a drop has up to two files (one at most while a batch runs), each
\* with the name of a listed file or the name that follows the last of the
\* list in AllNames; two new PDFs of one name are dropped on the empty list
\* only.
IsListed(name) == \E k \in 1..Len(files) : files[k] = name
NameIndex(name) == CHOOSE i \in 1..Len(AllNames) : AllNames[i] = name
Droppable(most) ==
    {i \in 1..most :
        \/ IsListed(AllNames[i])
        \/ i = (IF files = <<>> THEN 1 ELSE NameIndex(files[Len(files)]) + 1)}

Dropped(name, isPdf) == [name |-> name, isPdf |-> isPdf]

Drops(most) ==
    LET one == {Dropped(AllNames[i], t) : i \in Droppable(most), t \in BOOLEAN}
        IsTwice(f, g) == f.name = g.name /\ f.isPdf /\ g.isPdf /\ ~IsListed(f.name)
    IN  {<<>>} \cup {<<f>> : f \in one}
            \cup {d \in {<<f, g>> : f \in one, g \in one} :
                        /\ pc = "idle"
                        /\ IsTwice(d[1], d[2]) => files = <<>>}

\* the bound on the list edits made once a batch has been started: the
\* files of the batch and the edits since its start are `most` together
Editable(most) == pc = "idle" \/ Len(batch) + edits < most

OnlyPdfFilesError == [file |-> "", message |-> "Only PDF files are accepted."]

OnDrop(most) ==
    /\ PageWorks
    /\ Editable(most)
    /\ edits' = IF pc = "idle" THEN 0 ELSE edits + 1
    /\ \E acceptedFiles \in Drops(most) :
          LET IsPdf(f) == f.isPdf
              IsNew(f) == ~IsListed(f.name)
              pdfFiles == SelectSeq(acceptedFiles, IsPdf)
              newValidFiles == SelectSeq(pdfFiles, IsNew)
          IN  /\ Len(files) + Len(newValidFiles) <= most
              /\ files' = files \o [k \in 1..Len(newValidFiles) |-> newValidFiles[k].name]
              /\ error' = IF Len(pdfFiles) # Len(acceptedFiles) THEN OnlyPdfFilesError
                          ELSE Null
    /\ UNCHANGED <<batch, pc, idx, processedFiles, allExtractedData,
                   processingErrorOccurred, basicDetails, progress, toasts,
                   calls, handed, settled, progressed, storeVars, tableVars, quotationVars, pureVars>>

\* removeFile: the files of the given name leave the list; the error is
\* cleared with the last file.  Its button is not disabled while a batch
\* runs.
RemoveFile(most) ==
    /\ PageWorks
    /\ Editable(most)
    /\ edits' = IF pc = "idle" THEN 0 ELSE edits + 1
    /\ \E k \in 1..Len(files) :
          LET IsOther(f) == f # files[k]
          IN  files' = SelectSeq(files, IsOther)
    /\ error' = IF Len(files) = 1 THEN Null ELSE error
    /\ UNCHANGED <<batch, pc, idx, processedFiles, allExtractedData,
                   processingErrorOccurred, basicDetails, progress, toasts,
                   calls, handed, settled, progressed, storeVars, tableVars, quotationVars, pureVars>>

HandleUploadEmpty ==
    /\ PageWorks
    /\ pc = "idle"
    /\ Len(files) = 0
    /\ error' = SelectFilesError
    /\ UNCHANGED <<files, batch, pc, idx, edits, processedFiles, allExtractedData,
                   processingErrorOccurred, basicDetails, progress, toasts,
                   calls, handed, settled, progressed, storeVars, tableVars, quotationVars, pureVars>>

HandleUpload ==
    /\ PageWorks
    /\ pc = "idle"
    /\ Len(files) > 0
    /\ error' = Null
    /\ progress' = 0
    /\ batch' = files
    /\ processedFiles' = 0
    /\ allExtractedData' = <<>>
    /\ processingErrorOccurred' = FALSE
    /\ idx' = 1
    /\ pc' = "read"
    /\ calls' = Append(calls, Call("read", 1))
    /\ progressed' = <<0>>
    /\ edits' = 0
    /\ UNCHANGED <<files, basicDetails, toasts, handed, settled, storeVars,
                   tableVars, quotationVars, pureVars>>

ReadSettles(outcomes) ==
    /\ pc = "read"
    /\ \E r \in outcomes :
          IF readError(r, batch[idx]) = NoError
          THEN /\ pc' = "fields"
               /\ calls' = calls \o <<Return("read", idx, r), Call("fields", idx)>>
               /\ UNCHANGED <<files, batch, idx, edits, processedFiles, allExtractedData,
                              processingErrorOccurred, basicDetails, progress,
                              error, toasts, handed, settled, progressed, storeVars, tableVars, quotationVars,
                              pureVars>>
          ELSE CatchError("read", NoPrompt, r, readError(r, batch[idx]))

FieldsSettle(outcomes) ==
    /\ pc = "fields"
    /\ \E p \in outcomes :
          IF basicDetailsError(p) = NoError
          THEN /\ basicDetails' = p.out
               /\ pc' = "classify"
               /\ calls' = calls \o <<Return("fields", idx, p.kind),
                                       Call("classify", idx)>>
               /\ UNCHANGED <<files, batch, idx, edits, processedFiles, allExtractedData,
                              processingErrorOccurred, progress, error, toasts,
                              handed, settled, progressed, storeVars, tableVars, quotationVars, pureVars>>
          ELSE CatchError("fields", p, p.kind, basicDetailsError(p))

\* the end of extractInvoiceDataFlow for the document in hand: charges is
\* what classifyInvoiceCharges returned or raised for the prompt's outcome p
ClassifyReturns(p, charges) ==
    LET flowOutput == combinedOutput(basicDetails, charges)
        extractedData == extractInvoiceData(flowOutput, batch[idx])
    IN  IF charges.error # NoError
        THEN CatchError("classify", p, p.kind, charges.error)
        ELSE IF outputSchemaError(flowOutput) # NoError
        THEN CatchError("classify", p, p.kind, outputSchemaError(flowOutput))
        ELSE EndOfIteration(Append(allExtractedData, extractedData),
                            processingErrorOccurred, error, toasts,
                            Append(calls, Return("classify", idx, p.kind)),
                            Settlement(idx, TRUE, "classify", p, basicDetails,
                                       extractedData, ""))

ClassifySettles(outcomes) ==
    /\ pc = "classify"
    /\ \E p \in outcomes : ClassifyReturns(p, classifyInvoiceChargesFlow(p))

\* the same step with the classifier that returns the itemized actuals
ClassifyWithActualsSettles(outcomes) ==
    /\ pc = "classify"
    /\ \E p \in outcomes : ClassifyReturns(p, classifyInvoiceChargesWithActuals(p))

(***************************************************************************)
(* QuotationUploader and extractQuotationRatesFlow.                        *)
(***************************************************************************)
PdfType == "application/pdf"
File(name, type) == [name |-> name, type |-> type]
QuotationFiles ==
    {File("q1.pdf", PdfType), File("q2.pdf", PdfType), File("notes.txt", "text/plain")}

\* acceptedFiles of a drop: none, or one file (multiple: false)
QuotationDrops == {<<>>} \cup {<<f>> : f \in QuotationFiles}

OnlyPdfError == [file |-> "", message |-> "Only PDF files are accepted for quotations."]
SelectQuotationError == [file |-> "", message |-> "Please select a quotation PDF file."]
QuotationError(file, message) == [file |-> file, message |-> message]

QuotationProcessedToast(file) ==
    [kind |-> "quotation_processed", file |-> file, message |-> "",
     total |-> 0, succeeded |-> 0, failed |-> 0]
QuotationClearedToast ==
    [kind |-> "quotation_cleared", file |-> "", message |-> "",
     total |-> 0, succeeded |-> 0, failed |-> 0]

\* what the flow hands back: an error message, or the rates
FlowResult(err, rates) == [error |-> err, rates |-> rates]

\* the mutant: no structured output is taken for a schedule without rates
extractQuotationRatesFlow_EmptyOnNoOutput(p) ==
    CASE p.kind = "throw" -> FlowResult(p.message, Null)
      [] p.kind = "null" ->
            FlowResult(NoError, QuotationRates(Undefined, Undefined, Undefined,
                                               Undefined, Undefined, Undefined))
      [] OTHER -> FlowResult(NoError, p.out)

\* const {output} = await extractQuotationRatesPrompt(input);
\* if (!output) throw ...; return output
extractQuotationRatesFlow(p) ==
    CASE p.kind = "throw" -> FlowResult(p.message, Null)
      [] p.kind = "null" -> FlowResult("AI failed to extract quotation rates.", Null)
      [] OTHER -> FlowResult(NoError, p.out)

QuotationOutcomes ==
    {PromptOutput(r) : r \in StoreSchedules}
        \cup {PromptNoOutput(Null), PromptThrows(Null, CapabilityError)}

\* readFileAsDataURL resolves with a data URI of any prefix, or rejects
QuotationReadOutcomes == {"pdf", "other_mime", "reject_event", "reject_not_string"}

\* how readFileAsDataURL settled; the data URI is handed on as it is
quotationReadError(r) ==
    CASE r = "reject_event" -> "An unknown error occurred."
      [] r = "reject_not_string" -> "Failed to read file as Data URL."
      [] OTHER -> NoError

QOnDrop(drops) ==
    /\ PageWorks
    /\ quotationRates = Null
    /\ \E acceptedFiles \in drops :
          IF Len(acceptedFiles) > 0
          THEN IF acceptedFiles[1].type = PdfType
               THEN qFile' = acceptedFiles[1] /\ qError' = Null
               ELSE qFile' = Null /\ qError' = OnlyPdfError
          ELSE qFile' = qFile /\ qError' = Null
    /\ UNCHANGED <<qBatch, qpc, qProgress, toasts, calls, uploaderOwnVars,
                   storeVars, tableVars, pureVars>>

HandleProcessQuotation(most) ==
    /\ PageWorks
    /\ qpc = "idle"
    /\ quotationRates = Null
    /\ Len(toasts) < most
    /\ IF qFile = Null
       THEN /\ qError' = SelectQuotationError
            /\ UNCHANGED <<qBatch, qpc, qProgress, calls>>
       ELSE /\ qError' = Null
            /\ qProgress' = 0
            /\ qBatch' = qFile
            /\ qpc' = "read"
            /\ calls' = Append(calls, Call("quotation_read", 0))
    /\ UNCHANGED <<qFile, toasts, uploaderOwnVars, storeVars, tableVars, pureVars>>

\* the catch and finally blocks of the transition
QuotationCatch(ret, errorMessage) ==
    /\ qError' = QuotationError(qBatch.name, errorMessage)
    /\ toasts' = Append(toasts, ErrorToast(qBatch.name, errorMessage))
    /\ quotationRates' = Null
    /\ dataToDisplay' = useMemoDisplay(dataToDisplay, invoiceData, quotationRates,
                                       invoiceData, quotationRates')
    /\ renderError' = renderErrorOf(dataToDisplay')
    /\ storeOp' = NextOp("set", <<>>, 0, Null)
    /\ exported' = <<>>
    /\ qProgress' = NoProgress
    /\ qpc' = "idle"
    /\ qBatch' = Null
    /\ calls' = ret
    /\ UNCHANGED <<qFile, invoiceData, uploaderOwnVars, pureVars>>

QReadSettles(outcomes) ==
    /\ qpc = "read"
    /\ \E r \in outcomes :
          IF quotationReadError(r) = NoError
          THEN /\ qProgress' = 25
               /\ qpc' = "extract"
               /\ calls' = calls \o <<Return("quotation_read", 0, r),
                                       Call("quotation_extract", 0)>>
               /\ UNCHANGED <<qFile, qBatch, qError, toasts, uploaderOwnVars,
                              storeVars, tableVars, pureVars>>
          ELSE QuotationCatch(Append(calls, Return("quotation_read", 0, r)),
                              quotationReadError(r))

QExtractSettles(outcomes) ==
    /\ qpc = "extract"
    /\ \E p \in outcomes :
          LET result == extractQuotationRatesFlow(p)
              ret == Append(calls, Return("quotation_extract", 0, p.kind))
          IN  IF result.error # NoError
              THEN QuotationCatch(ret, result.error)
              ELSE IF result.rates = Null
              THEN QuotationCatch(ret, "AI flow returned empty response for quotation.")
              ELSE /\ quotationRates' = result.rates
                   /\ dataToDisplay' = useMemoDisplay(dataToDisplay, invoiceData,
                                           quotationRates, invoiceData, quotationRates')
                   /\ renderError' = renderErrorOf(dataToDisplay')
                   /\ storeOp' = NextOp("set", <<>>, 0, result.rates)
                   /\ exported' = <<>>
                   /\ toasts' = Append(toasts, QuotationProcessedToast(qBatch.name))
                   /\ qProgress' = NoProgress
                   /\ qpc' = "idle"
                   /\ qBatch' = Null
                   /\ calls' = ret
                   /\ UNCHANGED <<qFile, qError, invoiceData, uploaderOwnVars, pureVars>>

HandleClearQuotation(most) ==
    /\ PageWorks
    /\ quotationRates # Null
    /\ qFile # Null
    /\ Len(toasts) < most
    /\ qFile' = Null
    /\ quotationRates' = Null
    /\ dataToDisplay' = useMemoDisplay(dataToDisplay, invoiceData, quotationRates,
                                       invoiceData, quotationRates')
    /\ renderError' = renderErrorOf(dataToDisplay')
    /\ storeOp' = NextOp("clearRates", <<>>, 0, Null)
    /\ exported' = <<>>
    /\ qError' = Null
    /\ toasts' = Append(toasts, QuotationClearedToast)
    /\ UNCHANGED <<qBatch, qpc, qProgress, calls, invoiceData, uploaderOwnVars, pureVars>>

\*---- MODEL ENDS, SPECIFICATIONS ----

IdleUpload ==
    /\ files = <<>>
    /\ batch = <<>>
    /\ pc = "idle"
    /\ idx = 0
    /\ edits = 0
    /\ processedFiles = 0
    /\ allExtractedData = <<>>
    /\ processingErrorOccurred = FALSE
    /\ basicDetails = Null
    /\ progress = NoProgress
    /\ error = Null
    /\ toasts = <<>>
    /\ calls = <<>>
    /\ handed = <<>>
    /\ settled = <<>>
    /\ progressed = <<>>

IdleQuotation ==
    /\ qFile = Null
    /\ qBatch = Null
    /\ qpc = "idle"
    /\ qProgress = NoProgress
    /\ qError = Null

IdleTable ==
    /\ dataToDisplay = DisplayRows(invoiceData, quotationRates)
    /\ renderError = Null
    /\ exported = <<>>
    /\ storeOp = NoOp

IdleStore ==
    /\ invoiceData = <<>>
    /\ quotationRates = Null
    /\ IdleTable
    /\ IdleQuotation

(***************************************************************************)
(* SpecCoerce: parseChargeValue on every bounded input.                    *)
(***************************************************************************)
NextCoerce == Coerce \/ CoerceAgain

InitCoerceOnly == InitCoerce /\ IdleCompare /\ IdleUpload /\ IdleStore

SpecCoerce == InitCoerceOnly /\ [][NextCoerce]_vars

(***************************************************************************)
(* SpecCompare: compareCharges on every bounded invoice and schedule.      *)
(***************************************************************************)
NextCompare == Compare \/ CompareAgain \/ CompareTransportation

InitCompareOnly == InitCompare /\ IdleCoerce /\ IdleUpload /\ IdleStore

SpecCompare == InitCompareOnly /\ [][NextCompare]_vars

\* SpecActuals: a record is compared, then compared again with other service
\* and loading actuals against the same schedule
NextActuals == Compare \/ CompareActuals

SpecActuals == InitCompareOnly /\ [][NextActuals]_vars

(***************************************************************************)
(* Spec: one batch of up to MaxFiles documents through handleUpload, from  *)
(* the page as it mounts.                                                  *)
(***************************************************************************)
FieldOutcomes ==
    {PromptOutput(BasicDetails(inv, "air")) : inv \in {"INV1", "INV2"}}
        \cup {PromptNoOutput(NoDetails), PromptThrows(NoDetails, CapabilityError)}

ClassifyOutcomes ==
    {PromptOutput(ExampleCharges), PromptNoOutput(NoRawCharges),
     PromptThrows(NoRawCharges, CapabilityError)}

Init ==
    /\ IdleCoerce
    /\ IdleCompare
    /\ files = <<>>
    /\ batch = <<>>
    /\ pc = "idle"
    /\ idx = 0
    /\ edits = 0
    /\ processedFiles = 0
    /\ allExtractedData = <<>>
    /\ processingErrorOccurred = FALSE
    /\ basicDetails = Null
    /\ progress = NoProgress
    /\ error = Null
    /\ toasts = <<>>
    /\ calls = <<>>
    /\ handed = <<>>
    /\ settled = <<>>
    /\ progressed = <<>>
    /\ invoiceData = <<>>
    /\ quotationRates = Null
    /\ IdleTable
    /\ IdleQuotation

Next ==
    \/ OnDrop(MaxFiles)
    \/ RemoveFile(MaxFiles)
    \/ HandleUploadEmpty
    \/ HandleUpload
    \/ ReadSettles(ReadOutcomes)
    \/ FieldsSettle(FieldOutcomes)
    \/ ClassifySettles(ClassifyOutcomes)

Spec == Init /\ [][Next]_vars

(***************************************************************************)
(* SpecSettling: Spec where every pending read and every pending           *)
(* capability call settles in the end.                                     *)
(***************************************************************************)
SpecSettling ==
    /\ Init
    /\ [][Next]_vars
    /\ WF_vars(ReadSettles(ReadOutcomes))
    /\ WF_vars(FieldsSettle(FieldOutcomes))
    /\ WF_vars(ClassifySettles(ClassifyOutcomes))

(***************************************************************************)
(* SpecFlow: one document through extractInvoiceData with the classifier   *)
(* that returns the itemized actuals, the two prompts settling with every  *)
(* bounded combination of field values.                                    *)
(***************************************************************************)
\* the prompt of the classifier reports each actual and the aggregate as a
\* number (negative and NaN among them), as a formatted string or not at all
FlowClassifyOutcomes ==
    LET actuals == {NumberVal(Zero), NumberVal(Int2Num(50)), NumberVal(Int2Num(100)),
                    NumberVal(Int2Num(200)), NumberVal(Int2Num(0 - 100)), NumberVal(NaN),
                    StringVal(RupeeAmount), UndefinedVal}
        aggregates == {NumberVal(Zero), NumberVal(Int2Num(350)), NumberVal(Int2Num(999)),
                       NumberVal(Int2Num(0 - 5)), StringVal(RsAmount), UndefinedVal}
        none == RawChargesWithActuals(UndefinedVal, UndefinedVal, UndefinedVal,
                                      UndefinedVal, UndefinedVal)
    IN  {PromptOutput(RawChargesWithActuals(s, l, t, own, reimb)) :
            s \in actuals, l \in actuals, t \in actuals,
            own \in aggregates, reimb \in {NumberVal(Int2Num(1180)), UndefinedVal}}
            \cup {PromptNoOutput(none), PromptThrows(none, CapabilityError)}

NextFlow ==
    \/ OnDrop(1)
    \/ HandleUpload
    \/ ReadSettles({"pdf", "reject_event"})
    \/ FieldsSettle(FieldOutcomes)
    \/ ClassifyWithActualsSettles(FlowClassifyOutcomes)

SpecFlow == Init /\ [][NextFlow]_vars

(***************************************************************************)
(* SpecStore: the providers and the table, every operation with every     *)
(* bounded argument, in any order.                                         *)
(***************************************************************************)
InitStore == IdleCoerce /\ IdleCompare /\ IdleUpload /\ IdleStore

NextStore ==
    \/ AddInvoiceData(AddInputs, MaxStore)
    \/ ClearInvoiceData
    \/ SetQuotationRates(StoreSchedules)
    \/ ClearQuotationRates
    \/ HandleExport

SpecStore == InitStore /\ [][NextStore]_vars

(***************************************************************************)
(* SpecQuotation: the quotation uploader, from the page as it mounts.     *)
(***************************************************************************)
InitQuotation ==
    /\ IdleCoerce
    /\ IdleCompare
    /\ IdleUpload
    /\ invoiceData = <<>>
    /\ quotationRates = Null
    /\ IdleTable
    /\ IdleQuotation

NextQuotation ==
    \/ QOnDrop(QuotationDrops)
    \/ HandleProcessQuotation(MaxQuotationOps)
    \/ QReadSettles(QuotationReadOutcomes)
    \/ QExtractSettles(QuotationOutcomes)
    \/ HandleClearQuotation(MaxQuotationOps)

SpecQuotation == InitQuotation /\ [][NextQuotation]_vars

\*---- CLAIMS ----

IsOk(e) == e.ok
IsFailure(e) == ~e.ok
SucceededEntries == SelectSeq(settled, IsOk)
FailedEntries == SelectSeq(settled, IsFailure)
\* the records of the documents that succeeded, in list order
SucceededRecords == [j \in 1..Len(SucceededEntries) |-> SucceededEntries[j].rec]

IsReadCall(c) == c[1] = "call" /\ c[2] = "read"
ReadCalls == SelectSeq(calls, IsReadCall)

Returned(what, doc, how) ==
    \E k \in 1..Len(calls) :
        /\ calls[k][1] = "return"
        /\ calls[k][2] = what
        /\ calls[k][3] = doc
        /\ calls[k][4] = how

\* the sum of the three coerced actuals the classifier's prompt reported
ItemizedSum(raw) ==
    NumAdd(NumAdd(parseChargeValue(raw.serviceChargesActual),
                  parseChargeValue(raw.loadingChargesActual)),
           parseChargeValue(raw.transportationChargesActual))

C2_EveryDocumentAttemptedOnceInOrder ==
    /\ pc # "idle" =>
          /\ Len(ReadCalls) = idx
          /\ \A i \in 1..idx : ReadCalls[i] = Call("read", i)
          /\ Len(settled) = (IF pc = "done" THEN idx ELSE idx - 1)
          /\ \A k \in 1..Len(settled) : settled[k].doc = k
    /\ pc = "done" => (idx = Len(batch) /\ Len(settled) = Len(batch))

\* the first document failed, the two after it were processed and succeeded
C2_Witness ==
    /\ pc = "done"
    /\ Len(batch) >= 3
    /\ ~settled[1].ok
    /\ settled[2].ok
    /\ settled[3].ok

\* C3: when the batch is done, the records handed to the store are exactly
\* the records of the documents that succeeded, the store holds a record for
\* each of them, every failed document has been reported by filename with a
\* cause, and the batch ended with its completion report.
C3_SucceededRecordsHandedFailuresReported ==
    pc = "done" =>
        /\ handed = (IF Len(SucceededEntries) > 0 THEN <<SucceededRecords>> ELSE <<>>)
        /\ \A j \in 1..Len(SucceededEntries) :
              \E k \in 1..Len(invoiceData) :
                 /\ invoiceData[k].invoiceNumber = SucceededEntries[j].rec.invoiceNumber
                 /\ invoiceData[k].filename = SucceededEntries[j].file
        /\ \A j \in 1..Len(FailedEntries) :
              /\ FailedEntries[j].message # ""
              /\ \E t \in 1..Len(toasts) :
                    toasts[t] = ErrorToast(FailedEntries[j].file, FailedEntries[j].message)
        /\ Len(toasts) = Len(FailedEntries) + 1
        /\ toasts[Len(toasts)].kind \in {"complete", "finished_with_errors"}

\* three documents, the second could not be read: two records handed, one
\* failure reported for b.pdf
C3_Witness ==
    /\ pc = "done"
    /\ Len(batch) = 3
    /\ settled[1].ok
    /\ ~settled[2].ok
    /\ settled[2].stage = "read"
    /\ settled[3].ok
    /\ Len(handed) = 1
    /\ Len(handed[1]) = 2
    /\ handed[1][1].filename = "a.pdf"
    /\ handed[1][2].filename = "c.pdf"
    /\ \E t \in 1..Len(toasts) : toasts[t].kind = "error" /\ toasts[t].file = "b.pdf"

\* C4: the final report carries the tally: with a failure, succeeded and
\* failed are the numbers of documents that produced a record and that raised
\* a failure, and they add up to the batch; the all-successful report is
\* issued only when no document failed.
C4_PerDocumentTally ==
    pc = "done" =>
        LET last == toasts[Len(toasts)]
        IN  /\ Len(FailedEntries) > 0 =>
                  /\ last.kind = "finished_with_errors"
                  /\ last.succeeded = Len(SucceededEntries)
                  /\ last.failed = Len(FailedEntries)
                  /\ last.succeeded + last.failed = Len(batch)
                  /\ last.total = Len(batch)
            /\ \A t \in 1..Len(toasts) :
                  toasts[t].kind = "complete" => Len(FailedEntries) = 0
            /\ Len(FailedEntries) = 0 => last = CompleteToast(Len(batch))

\* a batch of three ended with one failure and two successes reported
C4_Witness ==
    /\ pc = "done"
    /\ Len(batch) = 3
    /\ Len(FailedEntries) = 1
    /\ toasts[Len(toasts)] = FinishedWithErrorsToast(3, 2)

HasRecordOf(data, file) == \E j \in 1..Len(data) : data[j].filename = file

\* the records extracted so far, and the records handed to the store, are
\* the records of the documents that succeeded, one each and in list order
\* (two documents of a batch may have the same file name, so a document is
\* told by its position)
OnlySucceededHaveRecords ==
    /\ allExtractedData = SucceededRecords
    /\ \A h \in 1..Len(handed) : handed[h] = SucceededRecords

\* C5: a document whose field-extraction call returned no structured result
\* fails with an error and contributes no record, and the records of the
\* other documents stay as they were.
C5_NoFieldsNoRecord ==
    /\ \A i \in 1..Len(batch) :
          Returned("fields", i, "null") =>
              /\ Len(settled) >= i
              /\ ~settled[i].ok
              /\ settled[i].message = FieldsFailed
              /\ \E t \in 1..Len(toasts) : toasts[t] = ErrorToast(batch[i], FieldsFailed)
    /\ OnlySucceededHaveRecords

\* the second of three documents had no fields; the first and third succeeded
C5_Witness ==
    /\ pc = "done"
    /\ Len(batch) = 3
    /\ Returned("fields", 2, "null")
    /\ settled[1].ok
    /\ settled[3].ok
    /\ Len(allExtractedData) = 2

\* C6: a document whose classification call returned no structured output
\* is still processed successfully: the classifier returned 0 in each of
\* its fields and no error, and the document's record has the field
\* extractor's identification fields, 0 as own charges and as
\* reimbursement charges, no actual other than 0 and a total of 0.
C6_NoClassificationZeroCharges ==
    \A i \in 1..Len(batch) :
        Returned("classify", i, "null") =>
            /\ Len(settled) >= i
            /\ settled[i].ok
            /\ classifyInvoiceChargesFlow(settled[i].prompt) = ZeroCharges
            /\ settled[i].rec.cargomenOwnCharges = Zero
            /\ settled[i].rec.reimbursementCharges = Zero
            /\ OrZero(settled[i].rec.serviceChargesActual) = Zero
            /\ OrZero(settled[i].rec.loadingChargesActual) = Zero
            /\ OrZero(settled[i].rec.transportationChargesActual) = Zero
            /\ NumAdd(settled[i].rec.cargomenOwnCharges,
                      settled[i].rec.reimbursementCharges) = Zero
            /\ settled[i].rec.invoiceNumber = settled[i].bd.invoiceNumber
            /\ settled[i].rec.invoiceDate = settled[i].bd.invoiceDate
            /\ settled[i].rec.hawbNumber = settled[i].bd.hawbNumber
            /\ settled[i].rec.termsOfInvoice = settled[i].bd.termsOfInvoice
            /\ settled[i].rec.jobNumber = settled[i].bd.jobNumber
            /\ settled[i].rec.shipmentType = settled[i].bd.shipmentType
            /\ Returned("fields", i, "output")
            /\ \E j \in 1..Len(allExtractedData) : allExtractedData[j] = settled[i].rec

\* a batch is done whose first document had no classification output: it
\* succeeded with the invoice number the field extractor read and no charges
C6_Witness ==
    /\ pc = "done"
    /\ Returned("classify", 1, "null")
    /\ settled[1].ok
    /\ settled[1].rec.invoiceNumber = "INV2"
    /\ settled[1].rec.cargomenOwnCharges = Zero
    /\ Len(handed) = 1

\* C7: coerce returns a number >= 0 for every input (NaN, negative numbers,
\* strings of any characters, undefined, null, boolean, object).
C7_CoerceNonNegative ==
    cdone => (~isNaN(cout) /\ NumGeq(cout, Zero))

\* the stripping C8 describes: digits and decimal points are kept, a minus
\* sign only where it leads what is kept
RECURSIVE StripKeepingLeadingMinus(_, _)
StripKeepingLeadingMinus(s, leading) ==
    IF s = <<>> THEN <<>>
    ELSE IF IsDigit(Head(s)) \/ Head(s) = "."
         THEN <<Head(s)>> \o StripKeepingLeadingMinus(Tail(s), FALSE)
    ELSE IF Head(s) = "-" /\ leading
         THEN <<"-">> \o StripKeepingLeadingMinus(Tail(s), FALSE)
    ELSE StripKeepingLeadingMinus(Tail(s), leading)

RECURSIVE WithoutCommas(_)
WithoutCommas(s) ==
    IF s = <<>> THEN <<>>
    ELSE IF Head(s) = "," THEN WithoutCommas(Tail(s))
    ELSE <<Head(s)>> \o WithoutCommas(Tail(s))

FirstDigitAt(s) == CHOOSE i \in 1..Len(s) :
                      IsDigit(s[i]) /\ \A j \in 1..(i - 1) : ~IsDigit(s[j])
LastDigitAt(s)  == CHOOSE i \in 1..Len(s) :
                      IsDigit(s[i]) /\ \A j \in (i + 1)..Len(s) : ~IsDigit(s[j])
AmountPart(s)   == SubSeq(s, FirstDigitAt(s), LastDigitAt(s))

\* a currency-formatted amount: an amount of digits, thousands commas and at
\* most one decimal point, with currency text before and after it that holds
\* no digit and no minus sign (the text before starts with a letter or a
\* symbol, as "Rs." does; the text after holds no point or comma)
CurrencyFormatted(s) ==
    /\ \E i \in 1..Len(s) : IsDigit(s[i])
    /\ \A i \in 1..Len(s) : s[i] # "-"
    /\ s[1] \notin {".", ","}
    /\ \A i \in (LastDigitAt(s) + 1)..Len(s) : s[i] \notin {".", ","}
    /\ \A i \in FirstDigitAt(s)..LastDigitAt(s) :
          IsDigit(s[i]) \/ s[i] = "," \/ s[i] = "."
    /\ Cardinality({i \in FirstDigitAt(s)..LastDigitAt(s) : s[i] = "."}) <= 1
    /\ \A i \in FirstDigitAt(s)..LastDigitAt(s) :
          s[i] = "," => \A j \in FirstDigitAt(s)..i : s[j] # "."

AmountOf(s) == parseFloat(WithoutCommas(AmountPart(s)))

\* C8 as stated: for a string, coerce strips every character that is not a
\* digit, a decimal point or a leading minus sign and parses the remainder
\* (0 if unparseable), and a currency-formatted amount coerces to its
\* numeric value whatever currency text surrounds the digits.
C8_StringCoercion ==
    (cdone /\ cin.t = "string") =>
        /\ LET number == parseFloat(StripKeepingLeadingMinus(cin.s, TRUE))
           IN  cout = IF isNaN(number) THEN Zero ELSE number
        /\ CurrencyFormatted(cin.s) => cout = AmountOf(cin.s)

\* C9: compared against no schedule (null), every record is
\* no_quotation_data, whatever its shipment mode and amounts.
C9_NullScheduleWins ==
    (cmpStatus # "" /\ cmpRates = Null) => cmpStatus = "no_quotation_data"

\* a record of unknown shipment mode compared against no schedule
C9_Witness ==
    /\ cmpRates = Null
    /\ cmpInvoice.shipmentType = "unknown"
    /\ cmpInvoice.serviceChargesActual = Int2Num(4001)
    /\ cmpStatus = "no_quotation_data"

\* C10: against every schedule that is not null, a record of unknown
\* shipment mode is invoice_type_unknown, whatever the schedule holds.
C10_UnknownTypeAgainstAnySchedule ==
    (cmpStatus # "" /\ cmpRates # Null /\ cmpInvoice.shipmentType = "unknown")
        => cmpStatus = "invoice_type_unknown"

\* a schedule without any ceiling, a record of unknown mode with amounts
C10_Witness ==
    /\ cmpRates = QuotationRates(Undefined, Undefined, Undefined,
                                 Undefined, Undefined, Undefined)
    /\ cmpInvoice.shipmentType = "unknown"
    /\ cmpInvoice.serviceChargesActual = Int2Num(4001)
    /\ cmpInvoice.loadingChargesActual = Int2Num(99999)
    /\ cmpStatus = "invoice_type_unknown"

\* the service and loading ceilings of the compared record's mode
ModeServiceCeiling ==
    IF cmpInvoice.shipmentType = "air" THEN cmpRates.airServiceChargeRate
    ELSE cmpRates.oceanServiceChargeRate
ModeLoadingCeiling ==
    IF cmpInvoice.shipmentType = "air" THEN cmpRates.airLoadingChargeRate
    ELSE cmpRates.oceanLoadingChargeRate
ComparedByMode ==
    /\ cmpStatus # ""
    /\ cmpRates # Null
    /\ cmpInvoice.shipmentType \in {"air", "ocean"}

\* C11: against a schedule, a record of mode air (ocean) is
\* not_comparable_charges exactly when the service ceiling and the loading
\* ceiling of that mode are both absent, whatever the other mode's ceilings
\* and the transportation ceilings are.
C11_NotComparableIffBothCeilingsAbsent ==
    ComparedByMode =>
        (cmpStatus = "not_comparable_charges"
            <=> (ModeServiceCeiling = Undefined /\ ModeLoadingCeiling = Undefined))

\* an air record against a schedule with no air ceiling, every ocean ceiling
\* and the air transportation rate defined
C11_Witness ==
    /\ cmpInvoice.shipmentType = "air"
    /\ cmpRates # Null
    /\ cmpRates.airServiceChargeRate = Undefined
    /\ cmpRates.airLoadingChargeRate = Undefined
    /\ cmpRates.airTransportationChargeRate = Int2Num(3500)
    /\ cmpRates.oceanServiceChargeRate = Int2Num(4000)
    /\ cmpRates.oceanLoadingChargeRate = Int2Num(200)
    /\ cmpStatus = "not_comparable_charges"

\* an actual is within its ceiling: the ceiling is absent, or the actual (0
\* when the record has none) is at most the ceiling
WithinCeiling(actual, ceiling) ==
    \/ ceiling = Undefined
    \/ NumGeq(ceiling, IF actual = Undefined THEN Zero ELSE actual)

\* C12: with at least one of the mode's two ceilings defined, the record is
\* matched if and only if each of its service and loading actuals is within
\* its ceiling (equality included, an absent ceiling passing), and
\* mismatched otherwise.
C12_MatchedIffWithinCeilings ==
    (ComparedByMode
        /\ (ModeServiceCeiling # Undefined \/ ModeLoadingCeiling # Undefined))
    => /\ cmpStatus \in {"matched", "mismatched"}
       /\ cmpStatus = "matched"
            <=> /\ WithinCeiling(cmpInvoice.serviceChargesActual, ModeServiceCeiling)
                /\ WithinCeiling(cmpInvoice.loadingChargesActual, ModeLoadingCeiling)

\* service 4000 against the ceiling 4000, loading 99999 with no ceiling
C12_Witness ==
    /\ cmpInvoice.shipmentType = "air"
    /\ cmpInvoice.serviceChargesActual = Int2Num(4000)
    /\ cmpInvoice.loadingChargesActual = Int2Num(99999)
    /\ cmpRates # Null
    /\ cmpRates.airServiceChargeRate = Int2Num(4000)
    /\ cmpRates.airLoadingChargeRate = Undefined
    /\ cmpStatus = "matched"

\* the two steps compare records that differ at most in the transportation
\* actual, against schedules that differ at most in the transportation rates
SameButTransportation ==
    /\ cmpStatus # ""
    /\ cmpStatus' # ""
    /\ cmpRates # Null
    /\ cmpRates' # Null
    /\ cmpInvoice' = [cmpInvoice EXCEPT !.transportationChargesActual =
                                        cmpInvoice'.transportationChargesActual]
    /\ cmpRates' = [cmpRates EXCEPT
                      !.airTransportationChargeRate = cmpRates'.airTransportationChargeRate,
                      !.oceanTransportationChargeRate = cmpRates'.oceanTransportationChargeRate]

\* C13: two records that differ only in the transportation actual, compared
\* against schedules that differ only in their transportation rates, get the
\* same status.
C13_TransportationNeverDecides ==
    [][SameButTransportation => cmpStatus' = cmpStatus]_vars

\* a matched air record whose transportation actual is over the schedule's
\* transportation rate
C13_Witness ==
    /\ cmpInvoice.shipmentType = "air"
    /\ cmpInvoice.serviceChargesActual = Int2Num(4000)
    /\ cmpInvoice.transportationChargesActual = Int2Num(5400)
    /\ cmpRates # Null
    /\ cmpRates.airServiceChargeRate = Int2Num(4000)
    /\ cmpRates.airLoadingChargeRate = Undefined
    /\ cmpRates.airTransportationChargeRate = Int2Num(3500)
    /\ cmpStatus = "matched"

Positive(actual) == actual # Undefined /\ NumGt(actual, Zero)

\* C14: a ceiling of 0 is a ceiling: a positive actual against it is
\* mismatched, and a mode whose two ceilings are 0 is never
\* not_comparable_charges.
C14_ZeroIsACeiling ==
    ComparedByMode =>
        /\ (ModeServiceCeiling = Zero /\ Positive(cmpInvoice.serviceChargesActual))
              => cmpStatus = "mismatched"
        /\ (ModeLoadingCeiling = Zero /\ Positive(cmpInvoice.loadingChargesActual))
              => cmpStatus = "mismatched"
        /\ (ModeServiceCeiling = Zero /\ ModeLoadingCeiling = Zero)
              => cmpStatus # "not_comparable_charges"

\* an ocean record with a service actual of 4000 against ceilings of 0
C14_Witness ==
    /\ cmpInvoice.shipmentType = "ocean"
    /\ cmpInvoice.serviceChargesActual = Int2Num(4000)
    /\ cmpInvoice.loadingChargesActual = Zero
    /\ cmpRates # Null
    /\ cmpRates.oceanServiceChargeRate = Zero
    /\ cmpRates.oceanLoadingChargeRate = Zero
    /\ cmpStatus = "mismatched"

(***************************************************************************)
(* The result store and the table (SpecStore).                             *)
(***************************************************************************)
SamePair(a, b) == a.invoiceNumber = b.invoiceNumber /\ a.filename = b.filename

Stored(item, data) == \E k \in 1..Len(data) : SamePair(data[k], item)

CountOfPair(item, data) == Cardinality({k \in 1..Len(data) : SamePair(data[k], item)})

IsPrefix(short, long) ==
    /\ Len(short) <= Len(long)
    /\ \A k \in 1..Len(short) : long[k] = short[k]

\* this step is a call of the named provider or table operation
StepOf(op) == storeOp' # storeOp /\ storeOp'.op = op

\* C15: an add whose records' (invoiceNumber, filename) pairs are all stored
\* leaves the store as it was; a record whose pair is not stored (it differs
\* from every stored record in the invoice number or in the file name) is
\* appended after the stored records; and a record added by one call and
\* added again by the next is stored exactly once.
C15_AddOfStoredPairIsNoOp ==
    [][StepOf("add") =>
          LET D == storeOp'.arg
          IN  /\ (\A j \in 1..Len(D) : Stored(D[j], invoiceData))
                    => invoiceData' = invoiceData
              /\ IsPrefix(invoiceData, invoiceData')
              /\ \A j \in 1..Len(D) :
                    ~Stored(D[j], invoiceData)
                        => \E k \in (Len(invoiceData) + 1)..Len(invoiceData') :
                              invoiceData'[k] = D[j]
              /\ (/\ storeOp.op = "add"
                  /\ storeOp.arg = D
                  /\ Len(D) = 1
                  /\ storeOp.added = 1)
                    => /\ invoiceData' = invoiceData
                       /\ CountOfPair(D[1], invoiceData') = 1]_vars

\* a record was added although its pair was stored, the store kept its one
\* record of the pair, and it also holds a record of the same invoice number
\* from another file
C15_Witness ==
    /\ storeOp.op = "add"
    /\ Len(storeOp.arg) = 1
    /\ storeOp.added = 0
    /\ CountOfPair(storeOp.arg[1], invoiceData) = 1
    /\ \E k \in 1..Len(invoiceData) :
          /\ invoiceData[k].invoiceNumber = storeOp.arg[1].invoiceNumber
          /\ invoiceData[k].filename # storeOp.arg[1].filename


(***************************************************************************)
(* The batch loop again (Spec): one document at a time.                    *)
(***************************************************************************)
\* p is 100 * k / n rounded to the nearest integer, a half rounding up
IsRoundedPercent(p, k, n) == 2 * p * n <= 200 * k + n /\ 200 * k + n < 2 * (p + 1) * n

\* C16: the documents of a batch are processed one at a time.  In the log of
\* calls every call is followed by its own return before the next call is
\* issued, so at most one read or extraction call is in flight, and it is a
\* call of the current document; a call of document i + 1 exists only when
\* documents 1..i have settled; and the progress shown has been 0 at the
\* start and round(100 * k / total) after the k-th document settled, whether
\* it succeeded or failed (and is withdrawn when the batch is done).
C16_OneDocumentAtATime ==
    pc # "idle" =>
        LET n == Len(batch)
            k == Len(settled)
        IN  /\ \A j \in 1..Len(calls) :
                  /\ calls[j][1] = (IF j % 2 = 1 THEN "call" ELSE "return")
                  /\ j % 2 = 0 => (calls[j][2] = calls[j - 1][2] /\ calls[j][3] = calls[j - 1][3])
                  /\ calls[j][3] <= k + 1
                  /\ j > 1 => calls[j - 1][3] <= calls[j][3]
            /\ Len(calls) % 2 = (IF pc = "done" THEN 0 ELSE 1)
            /\ pc # "done" => (calls[Len(calls)][3] = idx /\ k = idx - 1)
            /\ Len(progressed) = k + 1 + (IF pc = "done" THEN 1 ELSE 0)
            /\ progressed[1] = 0
            /\ \A j \in 1..k : IsRoundedPercent(progressed[j + 1], j, n)
            /\ pc = "done" => progressed[Len(progressed)] = NoProgress
            /\ progress = progressed[Len(progressed)]

\* a batch of three is done, its second document failed, and progress went
\* 0, 33, 67, 100 before it was withdrawn
C16_Witness ==
    /\ pc = "done"
    /\ Len(batch) = 3
    /\ settled[1].ok
    /\ ~settled[2].ok
    /\ progressed = <<0, 33, 67, 100, NoProgress>>


\* C17: the store is left alone by every step but the one that ends the
\* batch; that step keeps the stored records and appends only whole records:
\* each appended record is the record of a document whose two extractions
\* both succeeded, under that document's file name, and what is appended are
\* the records of the documents that succeeded whose pair was not stored, in
\* list order, so a document that failed contributes nothing.
C17_StoreChangedOnlyAfterProcessing ==
    [][/\ (pc' # "done" \/ pc = "done") => invoiceData' = invoiceData
       /\ IsPrefix(invoiceData, invoiceData')
       /\ \A j \in (Len(invoiceData) + 1)..Len(invoiceData') :
             \E k \in 1..Len(settled') :
                /\ settled'[k].ok
                /\ settled'[k].stage = "classify"
                /\ invoiceData'[j] = settled'[k].rec
                /\ invoiceData'[j].filename = settled'[k].file
       /\ (pc # "done" /\ pc' = "done") =>
             LET IsNewPair(r) == ~Stored(r, invoiceData)
             IN  SubSeq(invoiceData', Len(invoiceData) + 1, Len(invoiceData'))
                     = SelectSeq(SucceededRecords', IsNewPair)]_vars

\* the batch is done, a document failed at classification after its fields
\* had been extracted, and the records of the two others were added to the
\* store
C17_Witness ==
    /\ pc = "done"
    /\ storeOp.op = "add"
    /\ storeOp.added = 2
    /\ Len(invoiceData) = 2
    /\ \E k \in 1..Len(settled) : ~settled[k].ok /\ settled[k].stage = "classify"


(***************************************************************************)
(* The quotation uploader (SpecQuotation).                                 *)
(***************************************************************************)
NoStructuredOutput == Return("quotation_extract", 0, "null")
ExtractionFailedMessage == "AI failed to extract quotation rates."

LastOf(log) == log[Len(log)]

\* C18: when the quotation-extraction call returns no structured output, the
\* request ends in that step with the error "AI failed to extract quotation
\* rates." shown for the file of the request and reported by a toast, no
\* schedule is active; and as long as that return is the last entry of the
\* log of calls (no later request has started) the active schedule stays
\* absent.
C18_NoOutputNoSchedule ==
    /\ [](Len(calls) > 0 /\ LastOf(calls) = NoStructuredOutput
             => /\ quotationRates = Null
                /\ qpc = "idle"
                /\ LastOf(toasts).kind = "error"
                /\ LastOf(toasts).message = ExtractionFailedMessage)
    /\ [][calls' # calls /\ LastOf(calls') = NoStructuredOutput
             => /\ quotationRates' = Null
                /\ qError' = QuotationError(qBatch.name, ExtractionFailedMessage)
                /\ toasts' = Append(toasts, ErrorToast(qBatch.name, ExtractionFailedMessage))
                /\ qProgress' = NoProgress]_vars

\* a quotation was processed and cleared, and the next request ended with no
\* structured output: its error is shown and no schedule is active
C18_Witness ==
    /\ Len(calls) > 0
    /\ LastOf(calls) = NoStructuredOutput
    /\ quotationRates = Null
    /\ qError # Null
    /\ qError.message = ExtractionFailedMessage
    /\ \E k \in 1..Len(toasts) : toasts[k].kind = "quotation_processed"


(***************************************************************************)
(* The active schedule and the statuses shown (SpecStore).                 *)
(***************************************************************************)
\* C19: the context holds the schedule of the last set, or none after a
\* clear; whatever adds, clears and sets came before, the table has one row
\* for each stored record, in order, and the status of the row is the
\* comparison of the record with the schedule that is active now, in the
\* table and in the sheet an export writes; with no schedule active every
\* row shows no_quotation_data.  The rows are on the page as long as every
\* stored record has its own charges and its reimbursement charges; once a
\* record lacks one the render of the table raises and no row is shown.
C19_StatusOfTheActiveSchedule ==
    /\ storeOp.op = "set" => quotationRates = storeOp.rates
    /\ storeOp.op = "clearRates" => quotationRates = Null
    /\ Len(dataToDisplay) = Len(invoiceData)
    /\ \A k \in 1..Len(invoiceData) :
          /\ dataToDisplay[k].comparisonStatus = compareCharges(invoiceData[k], quotationRates)
          /\ quotationRates = Null => dataToDisplay[k].comparisonStatus = "no_quotation_data"
    /\ storeOp.op = "export" =>
          /\ Len(exported) = Len(invoiceData)
          /\ \A k \in 1..Len(invoiceData) :
                /\ exported[k].Status = compareCharges(invoiceData[k], quotationRates)
                /\ exported[k].InvoiceNo = invoiceData[k].invoiceNumber
                /\ exported[k].SourceFile = invoiceData[k].filename
    /\ PageWorks <=> \A k \in 1..Len(invoiceData) : ~RowTemplateThrows(invoiceData[k])

\* a sheet was exported under a schedule whose air service ceiling is 0: it
\* has a mismatched air row and a matched ocean row
C19_Witness ==
    /\ storeOp.op = "export"
    /\ quotationRates # Null
    /\ quotationRates.airServiceChargeRate = Zero
    /\ \E k \in 1..Len(exported) : exported[k].Status = "mismatched"
    /\ \E k \in 1..Len(exported) : exported[k].Status = "matched"


\* C20: a stored record is never changed.  A set or clear of the schedule and
\* an export leave the store as it is; an add keeps every stored record in
\* its place, also when it brings another record of a stored pair, and what
\* it appends are records of its argument; a clear empties the store; no
\* other step changes the store.  The status lives on the rows of the table
\* only: a stored record has no comparisonStatus, and a row is its record
\* with that one field more.
C20_StoredRecordsAreImmutable ==
    /\ [](/\ Len(dataToDisplay) = Len(invoiceData)
          /\ \A k \in 1..Len(invoiceData) :
                /\ "comparisonStatus" \notin DOMAIN invoiceData[k]
                /\ DOMAIN dataToDisplay[k] = DOMAIN invoiceData[k] \cup {"comparisonStatus"}
                /\ \A f \in DOMAIN invoiceData[k] : dataToDisplay[k][f] = invoiceData[k][f])
    /\ [][/\ (StepOf("set") \/ StepOf("clearRates") \/ StepOf("export"))
                => invoiceData' = invoiceData
          /\ StepOf("add")
                => /\ IsPrefix(invoiceData, invoiceData')
                   /\ \A k \in (Len(invoiceData) + 1)..Len(invoiceData') :
                         \E j \in 1..Len(storeOp'.arg) : invoiceData'[k] = storeOp'.arg[j]
          /\ StepOf("clear") => invoiceData' = <<>>
          /\ invoiceData' # invoiceData => (StepOf("add") \/ StepOf("clear"))]_vars

\* under an active schedule a record of a stored pair was added with other
\* amounts: the stored record is as it was, and its row carries a verdict
C20_Witness ==
    /\ storeOp.op = "add"
    /\ Len(storeOp.arg) = 1
    /\ storeOp.added = 0
    /\ quotationRates # Null
    /\ \E k \in 1..Len(invoiceData) :
          /\ SamePair(invoiceData[k], storeOp.arg[1])
          /\ invoiceData[k] # storeOp.arg[1]
          /\ dataToDisplay[k].comparisonStatus \in {"matched", "mismatched"}


(***************************************************************************)
(* Failures of one document (Spec).                                        *)
(***************************************************************************)
Called(what, doc) ==
    \E k \in 1..Len(calls) :
        calls[k][1] = "call" /\ calls[k][2] = what /\ calls[k][3] = doc

\* the batch went on after document i: the next document has been read, or
\* i was the last and the batch is done
WentOnAfter(i) == IF i < Len(batch) THEN Called("read", i + 1) ELSE pc = "done"

ReportedFailed(i, message) ==
    /\ Len(settled) >= i
    /\ ~settled[i].ok
    /\ settled[i].message = message
    /\ \E t \in 1..Len(toasts) : toasts[t] = ErrorToast(batch[i], message)

NoRecordOf(i) ==
    /\ Len(settled) >= i
    /\ ~settled[i].ok
    /\ OnlySucceededHaveRecords

\* C21: a document whose read rejected, or resolved with something that does
\* not start with 'data:application/pdf;base64,', is reported failed under
\* its file name; neither capability call is ever issued for it, it has no
\* record, and the batch goes on with the next document.
C21_ReadFailureIsOneDocumentsFailure ==
    \A i \in 1..Len(batch) :
        \A r \in ReadOutcomes \ {"pdf"} :
            Returned("read", i, r) =>
                /\ \E message \in {"Assignment to constant variable.",
                                   "File " \o batch[i] \o " could not be read as a valid PDF data URI.",
                                   "An unknown error occurred.",
                                   "Failed to read file as Data URL."} :
                      ReportedFailed(i, message)
                /\ settled[i].stage = "read"
                /\ ~Called("fields", i)
                /\ ~Called("classify", i)
                /\ NoRecordOf(i)
                /\ WentOnAfter(i)

\* of three documents the first read rejected and the second resolved with
\* another MIME type; the third was extracted and is the one record
C21_Witness ==
    /\ pc = "done"
    /\ Len(batch) = 3
    /\ Returned("read", 1, "reject_not_string")
    /\ Returned("read", 2, "other_mime")
    /\ settled[3].ok
    /\ Len(allExtractedData) = 1


\* C22: an exception of the capability, in field extraction or in charge
\* classification, fails the one document: it is reported under the file
\* name with the message of the exception, the stage it was raised in is the
\* last call made for the document, the document has no record, and the
\* batch goes on with the next document (or ends with its report).
C22_CapabilityExceptionIsOneDocumentsFailure ==
    /\ \A i \in 1..Len(batch) :
          \A stage \in {"fields", "classify"} :
              Returned(stage, i, "throw") =>
                  /\ ReportedFailed(i, CapabilityError)
                  /\ settled[i].stage = stage
                  /\ stage = "fields" => ~Called("classify", i)
                  /\ NoRecordOf(i)
                  /\ WentOnAfter(i)
    /\ pc = "done" =>
          /\ Len(settled) = Len(batch)
          /\ LastOf(toasts).kind \in {"complete", "finished_with_errors"}

\* field extraction of the first document and classification of the second
\* raised; the third gave the one record of the batch
C22_Witness ==
    /\ pc = "done"
    /\ Len(batch) = 3
    /\ Returned("fields", 1, "throw")
    /\ Returned("classify", 2, "throw")
    /\ settled[3].ok
    /\ Len(allExtractedData) = 1
    /\ LastOf(toasts) = FinishedWithErrorsToast(3, 1)


\* C24: the record of every document processed successfully carries the
\* file name the uploader passed for it (the name of the batch's file at the
\* document's position), its identification fields are those the field
\* extractor returned for the document and each of its monetary fields is
\* the amount of that name in what the classifier returned; the flow's own
\* output has no file name.
C24_RecordCarriesCallersFilename ==
    \A k \in 1..Len(settled) :
        settled[k].ok =>
            LET rec == settled[k].rec
                bd == settled[k].bd
                charges == classifyInvoiceChargesFlow(settled[k].prompt)
            IN  /\ rec.filename = batch[k]
                /\ combinedOutput(bd, charges).filename = UndefinedStr
                /\ rec.invoiceNumber = bd.invoiceNumber
                /\ rec.invoiceDate = bd.invoiceDate
                /\ rec.hawbNumber = bd.hawbNumber
                /\ rec.termsOfInvoice = bd.termsOfInvoice
                /\ rec.jobNumber = bd.jobNumber
                /\ rec.shipmentType = bd.shipmentType
                /\ charges.error = NoError
                /\ rec.cargomenOwnCharges = charges.cargomenOwnCharges
                /\ rec.reimbursementCharges = charges.reimbursementCharges
                /\ rec.serviceChargesActual = Property(charges, "serviceChargesActual")
                /\ rec.loadingChargesActual = Property(charges, "loadingChargesActual")
                /\ rec.transportationChargesActual
                       = Property(charges, "transportationChargesActual")
                /\ \E j \in 1..Len(allExtractedData) : allExtractedData[j] = rec

\* two documents of one batch succeeded with different invoice numbers; each
\* record has the name of its own file and the classifier's own charges
C24_Witness ==
    /\ pc = "done"
    /\ Len(batch) >= 2
    /\ settled[1].ok
    /\ settled[2].ok
    /\ settled[1].rec.invoiceNumber = "INV2"
    /\ settled[2].rec.invoiceNumber = "INV1"
    /\ settled[1].rec.filename = batch[1]
    /\ settled[2].rec.filename = batch[2]
    /\ batch[1] # batch[2]
    /\ settled[1].rec.cargomenOwnCharges = Int2Num(12060)


(***************************************************************************)
(* The comparator again (SpecCompare).                                     *)
(***************************************************************************)
NonNegativeCeiling(rate) == rate # Undefined /\ NumGeq(rate, Zero)

\* C25: a compared record of mode air or ocean without a service actual
\* passes the service check against every ceiling of 0 or more: with such a
\* ceiling its verdict is matched or mismatched, and it is matched exactly
\* when the loading actual is within its ceiling; and the same for a record
\* without a loading actual.  Absent from both, it is matched.
C25_AbsentActualIsZero ==
    ComparedByMode =>
        LET s == cmpInvoice.serviceChargesActual
            l == cmpInvoice.loadingChargesActual
            sr == ModeServiceCeiling
            lr == ModeLoadingCeiling
        IN  /\ (s = Undefined /\ NonNegativeCeiling(sr))
                  => /\ cmpStatus \in {"matched", "mismatched"}
                     /\ cmpStatus = "matched" <=> (l = Undefined \/ WithinCeiling(l, lr))
            /\ (l = Undefined /\ NonNegativeCeiling(lr))
                  => /\ cmpStatus \in {"matched", "mismatched"}
                     /\ cmpStatus = "matched" <=> (s = Undefined \/ WithinCeiling(s, sr))

\* an ocean record without a service actual was compared with a schedule
\* whose ocean service ceiling is 0, and matched
C25_Witness ==
    /\ cmpStatus = "matched"
    /\ cmpInvoice.shipmentType = "ocean"
    /\ cmpInvoice.serviceChargesActual = Undefined
    /\ cmpInvoice.loadingChargesActual = Int2Num(200)
    /\ cmpRates # Null
    /\ cmpRates.oceanServiceChargeRate = Zero
    /\ cmpRates.oceanLoadingChargeRate = Int2Num(200)


(***************************************************************************)
(* The result store again (SpecStore).                                     *)
(***************************************************************************)
\* C26: whatever adds (of one record or of an array) and clears came
\* before, no two records of the store have the same (invoiceNumber,
\* filename) pair.
C26_NoTwoRecordsOfAPair ==
    \A j \in 1..Len(invoiceData) :
        \A k \in 1..Len(invoiceData) :
            j # k => ~SamePair(invoiceData[j], invoiceData[k])


(***************************************************************************)
(* The comparator and the shipment mode (SpecCompare).                     *)
(***************************************************************************)
\* C27: against a schedule, only a record of mode air or ocean is given the
\* verdict matched or mismatched; a record whose mode is unknown, or that has
\* no mode, is given neither.
C27_VerdictOnlyForAirOrOcean ==
    (cmpStatus # "" /\ cmpRates # Null /\ cmpInvoice.shipmentType \notin {"air", "ocean"})
        => cmpStatus \notin {"matched", "mismatched"}


(***************************************************************************)
(* The two capability calls of one document (Spec).                        *)
(***************************************************************************)
\* C28: in the log of calls, a classification call of a document comes
\* right after the return of that document's field extraction with a
\* structured result; a document whose field extraction returned nothing or
\* raised has no classification call; and a document has a record only when
\* both of its calls have returned, field extraction with a result and
\* classification without an exception.
C28_ClassificationAfterFieldExtraction ==
    /\ \A j \in 1..Len(calls) :
          (calls[j][1] = "call" /\ calls[j][2] = "classify")
              => /\ j > 1
                 /\ calls[j - 1] = Return("fields", calls[j][3], "output")
    /\ \A i \in 1..Len(batch) :
          /\ (Returned("fields", i, "null") \/ Returned("fields", i, "throw"))
                => ~Called("classify", i)
          /\ (Len(settled) >= i /\ settled[i].ok)
                => /\ Returned("fields", i, "output")
                   /\ Returned("classify", i, "output") \/ Returned("classify", i, "null")
    /\ allExtractedData = SucceededRecords
    /\ pc \in {"read", "fields", "classify"} => Len(settled) = idx - 1

\* the first document's field extraction returned nothing, the second's
\* raised, and the third went through both calls and has the record
C28_Witness ==
    /\ pc = "done"
    /\ Len(batch) = 3
    /\ Returned("fields", 1, "null")
    /\ Returned("fields", 2, "throw")
    /\ Returned("fields", 3, "output")
    /\ Returned("classify", 3, "output")
    /\ HasRecordOf(allExtractedData, batch[3])


\* a is at most b, an absent actual counting as 0
ActualLeq(a, b) == NumGeq(OrZero(b), OrZero(a))

\* two comparisons in a row of records of one mode, air or ocean, against
\* one schedule
SameScheduleAndMode ==
    /\ cmpStatus # ""
    /\ cmpStatus' # ""
    /\ cmpRates # Null
    /\ cmpRates' = cmpRates
    /\ cmpInvoice.shipmentType \in {"air", "ocean"}
    /\ cmpInvoice'.shipmentType = cmpInvoice.shipmentType

\* C29: against one schedule and within one mode, a record whose service
\* and loading actuals are both at most those of a matched record is
\* matched, and a record whose actuals are both at least those of a
\* mismatched record is mismatched.
C29_MonotoneInTheActuals ==
    [][SameScheduleAndMode =>
          /\ (/\ cmpStatus = "matched"
              /\ ActualLeq(cmpInvoice'.serviceChargesActual, cmpInvoice.serviceChargesActual)
              /\ ActualLeq(cmpInvoice'.loadingChargesActual, cmpInvoice.loadingChargesActual))
                => cmpStatus' = "matched"
          /\ (/\ cmpStatus = "mismatched"
              /\ ActualLeq(cmpInvoice.serviceChargesActual, cmpInvoice'.serviceChargesActual)
              /\ ActualLeq(cmpInvoice.loadingChargesActual, cmpInvoice'.loadingChargesActual))
                => cmpStatus' = "mismatched"]_vars

\* an air record with a service actual of 0 and a loading actual at its
\* ceiling of 200 is matched under a service ceiling of 4000
C29_Witness ==
    /\ cmpStatus = "matched"
    /\ cmpRates # Null
    /\ cmpInvoice.shipmentType = "air"
    /\ cmpInvoice.serviceChargesActual = Zero
    /\ cmpInvoice.loadingChargesActual = Int2Num(200)
    /\ cmpRates.airServiceChargeRate = Int2Num(4000)
    /\ cmpRates.airLoadingChargeRate = Int2Num(200)


(***************************************************************************)
(* The end of the batch (SpecSettling).                                    *)
(***************************************************************************)
IsReport(t) == t.kind \in {"complete", "finished_with_errors"}

\* C30: if every read and every capability call settles, a batch that has
\* been started is done in the end; and a batch that is done has made one
\* attempt for each of its n documents, has handed the records of the
\* documents that succeeded to the store in one call (none if there are
\* none), has issued one report, its last toast, that says success exactly
\* when no document failed, and shows no progress.
C30_StartedBatchFinishes ==
    /\ (pc \in {"read", "fields", "classify"}) ~> (pc = "done")
    /\ [](pc = "done" =>
            /\ Len(ReadCalls) = Len(batch)
            /\ Len(settled) = Len(batch)
            /\ handed = (IF SucceededRecords = <<>> THEN <<>> ELSE <<SucceededRecords>>)
            /\ \A k \in 1..Len(SucceededRecords) : Stored(SucceededRecords[k], invoiceData)
            /\ Len(SelectSeq(toasts, IsReport)) = 1
            /\ LastOf(toasts) = (IF FailedEntries = <<>> THEN CompleteToast(Len(batch))
                                 ELSE FinishedWithErrorsToast(Len(batch), Len(SucceededRecords)))
            /\ progress = NoProgress)

\* a batch of three of which every document failed is done: nothing was
\* handed to the store and the report counts three failures
C30_Witness ==
    /\ pc = "done"
    /\ Len(batch) = 3
    /\ SucceededRecords = <<>>
    /\ handed = <<>>
    /\ LastOf(toasts) = FinishedWithErrorsToast(3, 0)
    /\ progress = NoProgress

====
